---- MODULE Spec2Model ----
(***************************************************************************)
(* A model of the PRE-EA / CSSM reconciliation of                          *)
(* excel_tools/excel_file_comparator.py (ExcelFileComparator), with the    *)
(* helpers it calls in utils/mapping_utils.py and utils/date_utils.py.     *)
(*                                                                         *)
(* Values.  A spreadsheet cell, as pandas hands it to the code, is one of  *)
(*   [k |-> "str",   s |-> <<chars>>]      a text cell                     *)
(*   [k |-> "int",   n |-> n]              an integer cell                 *)
(*   [k |-> "float", t |-> tenths]         a float cell (value t/10)       *)
(*   [k |-> "nan"]                         an empty cell                   *)
(*   [k |-> "ts",    date |-> <<y,m,d>>]   a Timestamp cell                *)
(*   [k |-> "datestr", form |-> f, f |-> <<a,b,c>>]  a text cell holding   *)
(*        three numeric fields in the layout f ("n/n/n", "n-n-n", ...)     *)
(* A Python str is a sequence of one-character strings.  A datetime.date   *)
(* is <<y, m, d>> and Python's None is NoneVal.                            *)
(***************************************************************************)
EXTENDS Integers, Sequences, FiniteSets, TLC

\* ---- bounds of the model
MaxConsumers == 2
MaxProducers == 2
MaxRuns == 2
MaxTicks == 1
MaxEntries == 2
MaxDirEntries == 2
NCols == 2

NoneVal == <<>>

StrCell(s) == [k |-> "str", s |-> s]
IntCell(n) == [k |-> "int", n |-> n]
FloatCell(t) == [k |-> "float", t |-> t]
NaN == [k |-> "nan"]
TsCell(d) == [k |-> "ts", date |-> d]
DateStr(form, a, b, c) == [k |-> "datestr", form |-> form, f |-> <<a, b, c>>]

\* ---- Python str: strip() and str()
Whitespace == {" "}

RECURSIVE LStrip(_)
LStrip(s) ==
    IF s = <<>> THEN s
    ELSE IF Head(s) \in Whitespace THEN LStrip(Tail(s)) ELSE s

RECURSIVE RStrip(_)
RStrip(s) ==
    IF s = <<>> THEN s
    ELSE IF s[Len(s)] \in Whitespace THEN RStrip(SubSeq(s, 1, Len(s) - 1)) ELSE s

\* str.strip()
Strip(s) == RStrip(LStrip(s))

DigitChar(d) ==
    CASE d = 0 -> "0" [] d = 1 -> "1" [] d = 2 -> "2" [] d = 3 -> "3" [] d = 4 -> "4"
      [] d = 5 -> "5" [] d = 6 -> "6" [] d = 7 -> "7" [] d = 8 -> "8" [] d = 9 -> "9"

RECURSIVE Digits(_)
Digits(n) == IF n < 10 THEN <<DigitChar(n)>> ELSE Digits(n \div 10) \o <<DigitChar(n % 10)>>

\* str(x) of a key cell: text as is, 100 -> "100", 100.0 -> "100.0", NaN -> "nan"
PyStr(c) ==
    CASE c.k = "str" -> c.s
      [] c.k = "int" -> Digits(c.n)
      [] c.k = "float" -> Digits(c.t \div 10) \o <<".">> \o Digits(c.t % 10)
      [] c.k = "nan" -> <<"n", "a", "n">>
      [] c.k = "none" -> <<"N", "o", "n", "e">>

\* ---- Python int(x): [ok |-> TRUE, n |-> value] or [ok |-> FALSE] for
\* ValueError / TypeError
IsDigit(ch) == ch \in {"0", "1", "2", "3", "4", "5", "6", "7", "8", "9"}

DigitVal(ch) == CHOOSE d \in 0..9 : DigitChar(d) = ch

RECURSIVE ParseDigits(_, _)
ParseDigits(s, acc) ==
    IF s = <<>> THEN acc ELSE ParseDigits(Tail(s), 10 * acc + DigitVal(Head(s)))

\* int(): a float is truncated toward zero, a numeric string is parsed, NaN,
\* None, a Timestamp and any other text raise
PyInt(c) ==
    CASE c.k = "int" -> [ok |-> TRUE, n |-> c.n]
      [] c.k = "float" -> [ok |-> TRUE, n |-> c.t \div 10]
      [] c.k = "str" ->
            LET t == Strip(c.s)
            IN  IF t # <<>> /\ \A i \in 1..Len(t) : IsDigit(t[i])
                THEN [ok |-> TRUE, n |-> ParseDigits(t, 0)]
                ELSE [ok |-> FALSE]
      [] OTHER -> [ok |-> FALSE]

\* n == x for an int n and a cell x (Python numeric equality; int against
\* str, NaN or None is False)
IntEqCell(n, c) ==
    CASE c.k = "int" -> n = c.n
      [] c.k = "float" -> 10 * n = c.t
      [] OTHER -> FALSE

\* ---- datetime.date
IsLeap(y) == (y % 4 = 0 /\ y % 100 # 0) \/ y % 400 = 0

DaysInMonth(y, m) ==
    IF m = 2 THEN (IF IsLeap(y) THEN 29 ELSE 28)
    ELSE IF m \in {4, 6, 9, 11} THEN 30 ELSE 31

ValidDate(y, m, d) == m \in 1..12 /\ d >= 1 /\ d <= DaysInMonth(y, m)

\* a < b and a <= b on dates
DateLT(a, b) ==
    \/ a[1] < b[1]
    \/ a[1] = b[1] /\ a[2] < b[2]
    \/ a[1] = b[1] /\ a[2] = b[2] /\ a[3] < b[3]

DateLE(a, b) == a = b \/ DateLT(a, b)

NextDay(a) ==
    IF a[3] < DaysInMonth(a[1], a[2]) THEN <<a[1], a[2], a[3] + 1>>
    ELSE IF a[2] < 12 THEN <<a[1], a[2] + 1, 1>>
    ELSE <<a[1] + 1, 1, 1>>

\* ---- utils/date_utils.py
\* A strptime format is <<layout, order>>: the layout of the text ("n/n/n" is
\* digits/digits/digits, "b" a month abbreviation, "B" a month name, " T" a
\* trailing HH:MM:SS) and the order of its fields (Y a 4-digit year, y a
\* 2-digit year).
FmtMDY == <<"n/n/n", "mdY">>

candidate_formats ==
    << <<"n-n-n", "Ymd">>,      \* %Y-%m-%d
       <<"n-n-n", "dmY">>,      \* %d-%m-%Y
       <<"n/n/n", "dmY">>,      \* %d/%m/%Y
       <<"n/n/n", "mdY">>,      \* %m/%d/%Y
       <<"n/n/n T", "mdY">>,    \* %m/%d/%Y %H:%M:%S
       <<"n/n/n", "dmy">>,      \* %d/%m/%y
       <<"n/n/n", "mdy">>,      \* %m/%d/%y
       <<"n/n/n T", "mdy">>,    \* %m/%d/%y %H:%M:%S
       <<"n/n/n", "Ymd">>,      \* %Y/%m/%d
       <<"n-b-n T", "Ymd">>,    \* %Y-%b-%d %H:%M:%S
       <<"n-b-n", "Ymd">>,      \* %Y-%b-%d
       <<"n-b-n", "dmY">>,      \* %d-%b-%Y
       <<"n-b-n T", "dmY">>,    \* %d-%b-%Y %H:%M:%S
       <<"n-B-n T", "Ymd">>,    \* %Y-%B-%d %H:%M:%S
       <<"n-B-n", "Ymd">>,      \* %Y-%B-%d
       <<"n-B-n", "dmY">>,      \* %d-%B-%Y
       <<"n-B-n T", "dmY">> >>  \* %d-%B-%Y %H:%M:%S

IsYear4(v) == v >= 1000 /\ v <= 9999
IsYear2(v) == v >= 0 /\ v <= 99
\* %y: 69..99 are 1969..1999, 0..68 are 2000..2068
Year2(v) == IF v >= 69 THEN 1900 + v ELSE 2000 + v

\* datetime.strptime(text, fmt).date(), NoneVal when it raises
Strptime(c, fmt) ==
    IF c.k # "datestr" \/ c.form # fmt[1] THEN NoneVal
    ELSE LET f == c.f
             o == fmt[2]
             y == CASE o = "Ymd" -> f[1] [] o \in {"dmY", "mdY"} -> f[3]
                    [] o \in {"dmy", "mdy"} -> Year2(f[3])
             yok == CASE o = "Ymd" -> IsYear4(f[1]) [] o \in {"dmY", "mdY"} -> IsYear4(f[3])
                      [] o \in {"dmy", "mdy"} -> IsYear2(f[3])
             m == CASE o = "Ymd" -> f[2] [] o \in {"dmY", "dmy"} -> f[2]
                    [] o \in {"mdY", "mdy"} -> f[1]
             d == CASE o = "Ymd" -> f[3] [] o \in {"dmY", "dmy"} -> f[1]
                    [] o \in {"mdY", "mdy"} -> f[2]
         IN  IF yok /\ ValidDate(y, m, d) THEN <<y, m, d>> ELSE NoneVal

\* the first format of fmts, from position i, that parses c
RECURSIVE FirstParse(_, _, _)
FirstParse(c, fmts, i) ==
    IF i > Len(fmts) THEN NoneVal
    ELSE LET date_obj == Strptime(c, fmts[i])
         IN  IF date_obj # NoneVal THEN date_obj ELSE FirstParse(c, fmts, i + 1)

\* pd.to_datetime(x, errors="raise").date(): a number is nanoseconds since
\* the epoch, an ISO date with a time part parses, the texts no strptime
\* pattern took raise
PdToDatetime(c) ==
    CASE c.k \in {"int", "float"} -> <<1970, 1, 1>>
      [] c.k = "datestr" /\ c.form = "n-n-n T" ->
            IF IsYear4(c.f[1]) /\ ValidDate(c.f[1], c.f[2], c.f[3])
            THEN <<c.f[1], c.f[2], c.f[3]>> ELSE NoneVal
      [] OTHER -> NoneVal

\* standardize_date(date_input, in_format=in_formats) with out_format None;
\* in_formats is a sequence of formats, <<>> when none is given
standardize_date(c, in_formats) ==
    IF c.k \in {"none", "nan"} THEN NoneVal
    ELSE IF c.k = "ts" THEN c.date
    ELSE LET given == FirstParse(c, in_formats, 1)
             known == FirstParse(c, candidate_formats, 1)
         IN  IF given # NoneVal THEN given
             ELSE IF known # NoneVal THEN known
             ELSE PdToDatetime(c)

\* ---- utils/colors.py
RED_FILL == "FF0000"
BLUE_FILL == "0000FF"
YELLOW_FILL == "FFFF00"
GREEN_FILL == "00FF00"
PINK_FILL == "800080"
NO_FILL == "none"

VARIABLES
    pre_ea_file,        \* the PRE-EA workbook: a sequence of rows [alc, pid, qty, exp]
    cssm_file,          \* the CSSM workbook: a sequence of rows [src, sku, avail, endd]
    pid_to_skus_map,    \* the alias map handed to compare_and_save
    cssm_columns,       \* the column names of the CSSM sheet 'License Detail'
    pre_ea_columns,     \* the column names of the PRE-EA sheet
    unreadable,         \* the workbooks among "cssm", "pre_ea" that cannot be read
    out_file,           \* the output workbook on disk: "absent" | "copy" | "saved"
    mapping_path,       \* the argument of load_pid_to_skus_map: "None" | "given"
    sku_map_file,       \* the mapping document at that path (the default path for
                        \* "None"): NoFile | NotJson | a JSON value
    map_out,            \* Unset, or what the loading of the alias map gave
    uploaded,           \* the sku_map.json uploaded in the sidebar: NoUpload | NotJson
                        \* | a JSON value
    report,             \* NoReport, or what the caller of compare_and_save showed
                        \* after the call
    dir_state,          \* what is at directory_path: "missing" | "file" | "dir" |
                        \* "unreadable" (a directory that cannot be listed)
    dir_entries,        \* the entries of the directory: name -> [kind, removable]
    scan,               \* the position of ensure_clean_dir: NotCalled, or
                        \* [pc, at_call, visited, warned]
    cli,                \* the run of compare_excels.main on the same files:
                        \* [pc, idx, log, counts]
    flagging,           \* the run of compute_licensing_files (dict variant) on the
                        \* same files: [pc, Flag], Flag the column of df_pre_ea
    df_logs,            \* NoTable, or the row-by-row table the Streamlit page shows
    output_dir,         \* the output directory over constructions and runs:
                        \* [pc, cleanups, entries], entries name -> [kind,
                        \* removable, born], born the number of cleanups before
                        \* the entry was written
    cssm,               \* the CSSM data frame of this run
    pre_ea,             \* the PRE-EA data frame of this run
    clock,              \* the date datetime.today() returned last
    ticks,              \* how many times the date has changed
    pc,                 \* "idle" | "loop" | "done" | "raised"
    run,                \* number of compare_and_save calls started
    idx,                \* number of PRE-EA rows already processed in this run
    used_cssm_indices,  \* the claimed CSSM rows of this run
    ws,                 \* worksheet: row -> column -> fill (row 1 is the header)
    red_rows, blue_rows, yellow_rows, green_rows, pink_rows,
    log,                \* the per-row records of the log file, all runs
    hist,               \* per log record: the iteration's today, sku_match and
                        \* matched_cssm_row (label, 0 for None)
    rets                \* the values returned by the completed runs

vars == <<pre_ea_file, cssm_file, pid_to_skus_map, cssm_columns, pre_ea_columns, unreadable,
          out_file, mapping_path, sku_map_file, map_out, uploaded, report, dir_state, dir_entries,
          scan, cli, flagging, output_dir, df_logs, cssm, pre_ea, clock, ticks, pc, run, idx,
          used_cssm_indices, ws, red_rows, blue_rows, yellow_rows, green_rows,
          pink_rows, log, hist, rets>>

inputs == <<pre_ea_file, cssm_file, pid_to_skus_map, cssm_columns, pre_ea_columns, unreadable>>

counters == <<red_rows, blue_rows, yellow_rows, green_rows, pink_rows>>

\* what compare_and_save neither reads nor writes
\* the output directory as ensure_clean_dir sees it
cleaning == <<dir_state, dir_entries, scan>>

outside == <<mapping_path, sku_map_file, map_out, uploaded, report, cleaning, cli,
             flagging, output_dir, df_logs>>

\* ---- the loaded data frames
\* the columns the code names
CssmColumns == {"Source Identifier", "SKU", "Available To Use", "Subscription End Date"}
PreEaColumns == {"ALC Order Number", "Pre EA Migrated Pid", "Quantity", "Expiration Date"}

\* Python's None as a cell value
NoneCell == [k |-> "none"]

\* the cell of a column, None when the sheet has no such column
CellOf(columns, name, c) == IF name \in columns THEN c ELSE NoneCell

\* line 25: the CSSM rows as read from a sheet with the given columns
ReadCssm(file, columns) ==
    [i \in 1..Len(file) |->
        [src |-> CellOf(columns, "Source Identifier", file[i].src),
         sku |-> CellOf(columns, "SKU", file[i].sku),
         avail |-> CellOf(columns, "Available To Use", file[i].avail),
         endd |-> CellOf(columns, "Subscription End Date", file[i].endd)]]

\* lines 39-50: the PRE-EA rows as row.get() returns their cells
ReadPreEa(file, columns) ==
    [i \in 1..Len(file) |->
        [alc |-> CellOf(columns, "ALC Order Number", file[i].alc),
         pid |-> CellOf(columns, "Pre EA Migrated Pid", file[i].pid),
         qty |-> CellOf(columns, "Quantity", file[i].qty),
         exp |-> CellOf(columns, "Expiration Date", file[i].exp)]]

\* lines 25-34 raise: a workbook that cannot be read (pd.read_excel at line
\* 25, load_workbook at line 34) or a CSSM sheet without the columns of
\* lines 27-28 (KeyError)
LoadRaises ==
    \/ unreadable # {}
    \/ ~({"Source Identifier", "SKU"} \subseteq cssm_columns)

\* cssm after lines 25-28: 'Source Identifier' and 'SKU' are astype(str).str.strip()
LoadCssm(file) ==
    [i \in 1..Len(file) |->
        [file[i] EXCEPT !.src = Strip(PyStr(@)), !.sku = Strip(PyStr(@))]]

\* a frame's row subset, as the increasing sequence of its row labels
AllRows(frame) == [i \in 1..Len(frame) |-> i]

\* a faulty variant of get_valid_sku_matches: no alias fallback
get_direct_sku_matches(frame, cssm_matches, pid, map) ==
    SelectSeq(cssm_matches, LAMBDA i : frame[i].sku = pid)

\* a faulty variant of get_valid_sku_matches: the alias SKUs are accepted
\* next to the direct ones
get_direct_or_alias_sku_matches(frame, cssm_matches, pid, map) ==
    SelectSeq(cssm_matches, LAMBDA i :
        \/ frame[i].sku = pid
        \/ pid \in DOMAIN map /\ \E j \in 1..Len(map[pid]) : frame[i].sku = map[pid][j])

\* ---- utils/mapping_utils.py
\* cssm_matches[cssm_matches['SKU'] == pid], then the mapped SKUs when that is
\* empty and pid is a key of the map
get_valid_sku_matches(frame, cssm_matches, pid, map) ==
    LET direct == SelectSeq(cssm_matches, LAMBDA i : frame[i].sku = pid)
    IN  IF direct = <<>> /\ pid \in DOMAIN map
        THEN SelectSeq(cssm_matches,
                       LAMBDA i : \E j \in 1..Len(map[pid]) : frame[i].sku = map[pid][j])
        ELSE direct

\* ---- ExcelFileComparator.compare_and_save: one iteration of the row loop
\* line 66: cssm[cssm['Source Identifier'] == alc_order_number_str]
CssmMatches(frame, alc_order_number_str) ==
    SelectSeq(AllRows(frame), LAMBDA i : frame[i].src = alc_order_number_str)

\* a faulty variant of Eligible: the claimed set is not consulted
EligibleIgnoringClaims(frame, i, used, qty) ==
    /\ PyInt(frame[i].avail).ok
    /\ IntEqCell(PyInt(frame[i].avail).n, qty)

\* lines 88-99 for one candidate: not used yet, int() succeeds, and the
\* value equals the PRE-EA quantity
Eligible(frame, i, used, qty) ==
    /\ i \notin used
    /\ PyInt(frame[i].avail).ok
    /\ IntEqCell(PyInt(frame[i].avail).n, qty)

\* a faulty variant of FirstEligible: the last eligible candidate wins
RECURSIVE LastEligible(_, _, _, _)
LastEligible(frame, cands, used, qty) ==
    IF cands = <<>> THEN 0
    ELSE IF Eligible(frame, cands[Len(cands)], used, qty) THEN cands[Len(cands)]
    ELSE LastEligible(frame, SubSeq(cands, 1, Len(cands) - 1), used, qty)

\* lines 86-107: the label of the first eligible candidate, 0 when the loop
\* ends without a match (matched_cssm_row stays None)
RECURSIVE FirstEligible(_, _, _, _)
FirstEligible(frame, cands, used, qty) ==
    IF cands = <<>> THEN 0
    ELSE IF Eligible(frame, Head(cands), used, qty) THEN Head(cands)
    ELSE FirstEligible(frame, Tail(cands), used, qty)

\* the branch an iteration ends in, with its locals sku_match (<<>> when line
\* 73 is not reached) and the label of matched_cssm_row (0: None)
Branch(msg, sku_match, claimed) == [msg |-> msg, sku_match |-> sku_match, claimed |-> claimed]

\* a faulty variant of DateStage: line 129 compares with <
DateStageStrict(frame, r, sku_match, matched) ==
    LET pre_ea_exp_date == standardize_date(r.exp, <<FmtMDY>>)
        cssm_exp_date == standardize_date(frame[matched].endd, <<>>)
    IN  IF pre_ea_exp_date = NoneVal \/ cssm_exp_date = NoneVal
        THEN Branch("DATE_INVALID", sku_match, matched)
        ELSE IF DateLT(pre_ea_exp_date, cssm_exp_date)
        THEN Branch("ACCEPTED", sku_match, matched)
        ELSE Branch("DATE_OUT_OF_RANGE", sku_match, matched)

\* lines 120-138: the date stage, for the claimed row
DateStage(frame, r, sku_match, matched) ==
    LET pre_ea_exp_date == standardize_date(r.exp, <<FmtMDY>>)
        cssm_exp_date == standardize_date(frame[matched].endd, <<>>)
    IN  IF pre_ea_exp_date = NoneVal \/ cssm_exp_date = NoneVal
        THEN Branch("DATE_INVALID", sku_match, matched)
        ELSE IF DateLE(pre_ea_exp_date, cssm_exp_date)
        THEN Branch("ACCEPTED", sku_match, matched)
        ELSE Branch("DATE_OUT_OF_RANGE", sku_match, matched)

\* lines 82-138: the quantity stage, then the date stage
QuantityStage(frame, r, sku_match, used) ==
    LET matched == FirstEligible(frame, sku_match, used, r.qty)
    IN  IF matched = 0 THEN Branch("NO_QUANTITY_MATCH", sku_match, 0)
        ELSE DateStage(frame, r, sku_match, matched)

\* lines 73-138
SkuStage(frame, map, r, cssm_matches, used) ==
    LET pre_ea_migrated_pid_str == Strip(PyStr(r.pid))
        sku_match == get_valid_sku_matches(frame, cssm_matches, pre_ea_migrated_pid_str, map)
    IN  IF sku_match = <<>> THEN Branch("NO_SECONDARY_MATCH", sku_match, 0)
        ELSE QuantityStage(frame, r, sku_match, used)

\* a faulty variant of LoopBody: the expired check of lines 57-65 is missing
LoopBodyWithoutExpiredCheck(frame, map, r, used, today) ==
    LET alc_order_number_str == Strip(PyStr(r.alc))
        cssm_matches == CssmMatches(frame, alc_order_number_str)
    IN  IF cssm_matches = <<>> THEN Branch("NO_PRIMARY_MATCH", <<>>, 0)
        ELSE SkuStage(frame, map, r, cssm_matches, used)

\* a faulty variant of LoopBody: a row expiring today counts as expired
LoopBodyExpiringToday(frame, map, r, used, today) ==
    LET alc_order_number_str == Strip(PyStr(r.alc))
        pre_ea_exp_date_for_check == standardize_date(r.exp, <<FmtMDY>>)
    IN  IF pre_ea_exp_date_for_check # NoneVal /\ DateLE(pre_ea_exp_date_for_check, today)
        THEN Branch("EXPIRED_ALREADY", <<>>, 0)
        ELSE LET cssm_matches == CssmMatches(frame, alc_order_number_str)
             IN  IF cssm_matches = <<>> THEN Branch("NO_PRIMARY_MATCH", <<>>, 0)
                 ELSE SkuStage(frame, map, r, cssm_matches, used)

\* a faulty variant of LoopBody: the primary-key join comes before the
\* expired check
LoopBodyPrimaryFirst(frame, map, r, used, today) ==
    LET alc_order_number_str == Strip(PyStr(r.alc))
        pre_ea_exp_date_for_check == standardize_date(r.exp, <<FmtMDY>>)
        cssm_matches == CssmMatches(frame, alc_order_number_str)
    IN  IF cssm_matches = <<>> THEN Branch("NO_PRIMARY_MATCH", <<>>, 0)
        ELSE IF pre_ea_exp_date_for_check # NoneVal /\ DateLT(pre_ea_exp_date_for_check, today)
        THEN Branch("EXPIRED_ALREADY", <<>>, 0)
        ELSE SkuStage(frame, map, r, cssm_matches, used)

\* lines 47-138: the control flow of one iteration, for the PRE-EA row r,
\* the claimed set used and the date today read at line 58
LoopBody(frame, map, r, used, today) ==
    LET alc_order_number_str == Strip(PyStr(r.alc))
        pre_ea_exp_date_for_check == standardize_date(r.exp, <<FmtMDY>>)
    IN  IF pre_ea_exp_date_for_check # NoneVal /\ DateLT(pre_ea_exp_date_for_check, today)
        THEN Branch("EXPIRED_ALREADY", <<>>, 0)
        ELSE LET cssm_matches == CssmMatches(frame, alc_order_number_str)
             IN  IF cssm_matches = <<>> THEN Branch("NO_PRIMARY_MATCH", <<>>, 0)
                 ELSE SkuStage(frame, map, r, cssm_matches, used)

row == pre_ea[idx + 1]
excel_row_idx == idx + 2

\* the dates datetime.today().date() may return at line 58: the one it
\* returned last, or the next one when midnight passed in between
TodayReads == {clock} \cup (IF ticks < MaxTicks THEN {NextDay(clock)} ELSE {})

\* a faulty variant of FillRow: only the first cell of the row is filled
FillRowFirstCell(sheet, r, fill) == [sheet EXCEPT ![r][1] = fill]

\* lines 62-63 and their like: every cell of worksheet row r gets the fill
FillRow(sheet, r, fill) == [sheet EXCEPT ![r] = [col \in 1..NCols |-> fill]]

\* a faulty variant of Mark: line 103 is missing, the claim is not recorded
MarkWithoutClaim(today, b, colour, fill) ==
    /\ log' = Append(log, [row |-> excel_row_idx, msg |-> b.msg, colour |-> colour])
    /\ ws' = FillRow(ws, excel_row_idx, fill)
    /\ hist' = Append(hist, [today |-> today, sku_match |-> b.sku_match,
                              matched |-> b.claimed])
    /\ used_cssm_indices' = used_cssm_indices
    /\ clock' = today
    /\ ticks' = IF today = clock THEN ticks ELSE ticks + 1
    /\ idx' = idx + 1
    /\ UNCHANGED <<inputs, outside, out_file, cssm, pre_ea, pc, run, rets>>

\* a faulty variant of Mark: the claimed set is rebuilt in every iteration
MarkResettingClaims(today, b, colour, fill) ==
    /\ log' = Append(log, [row |-> excel_row_idx, msg |-> b.msg, colour |-> colour])
    /\ ws' = FillRow(ws, excel_row_idx, fill)
    /\ hist' = Append(hist, [today |-> today, sku_match |-> b.sku_match,
                              matched |-> b.claimed])
    /\ used_cssm_indices' = IF b.claimed = 0 THEN {} ELSE {b.claimed}
    /\ clock' = today
    /\ ticks' = IF today = clock THEN ticks ELSE ticks + 1
    /\ idx' = idx + 1
    /\ UNCHANGED <<inputs, outside, out_file, cssm, pre_ea, pc, run, rets>>

\* a faulty variant of Mark: the claim of line 103 is given back when the
\* date stage does not accept the row
MarkReleasingOnDateFailure(today, b, colour, fill) ==
    /\ log' = Append(log, [row |-> excel_row_idx, msg |-> b.msg, colour |-> colour])
    /\ ws' = FillRow(ws, excel_row_idx, fill)
    /\ hist' = Append(hist, [today |-> today, sku_match |-> b.sku_match,
                              matched |-> b.claimed])
    /\ used_cssm_indices' =
            IF b.claimed = 0 \/ b.msg \in {"DATE_INVALID", "DATE_OUT_OF_RANGE"}
            THEN used_cssm_indices ELSE used_cssm_indices \cup {b.claimed}
    /\ clock' = today
    /\ ticks' = IF today = clock THEN ticks ELSE ticks + 1
    /\ idx' = idx + 1
    /\ UNCHANGED <<inputs, outside, out_file, cssm, pre_ea, pc, run, rets>>

\* what every branch does before its counter: log, fill, continue
Mark(today, b, colour, fill) ==
    /\ log' = Append(log, [row |-> excel_row_idx, msg |-> b.msg, colour |-> colour])
    /\ ws' = FillRow(ws, excel_row_idx, fill)
    /\ hist' = Append(hist, [today |-> today, sku_match |-> b.sku_match,
                              matched |-> b.claimed])
    /\ used_cssm_indices' =
            IF b.claimed = 0 THEN used_cssm_indices ELSE used_cssm_indices \cup {b.claimed}
    /\ clock' = today
    /\ ticks' = IF today = clock THEN ticks ELSE ticks + 1
    /\ idx' = idx + 1
    /\ UNCHANGED <<inputs, outside, out_file, cssm, pre_ea, pc, run, rets>>

\* a faulty variant of KeyErrorInLoop: the try of lines 92-96 is missing,
\* so int() of a cell that is no number raises as well
ErrorInLoopWithoutTry(b, used) ==
    \/ /\ "Available To Use" \notin cssm_columns
       /\ \E j \in 1..Len(b.sku_match) : b.sku_match[j] \notin used
    \/ /\ "Subscription End Date" \notin cssm_columns
       /\ b.claimed # 0
    \/ \E j \in 1..Len(b.sku_match) :
        /\ b.sku_match[j] \notin used
        /\ ~PyInt(cssm[b.sku_match[j]].avail).ok
        /\ b.claimed = 0 \/ b.sku_match[j] < b.claimed

\* the iteration raises KeyError: at line 93 when the quantity loop reaches
\* an unclaimed candidate and the sheet has no 'Available To Use', at line
\* 121 when a row is matched and the sheet has no 'Subscription End Date'
KeyErrorInLoop(b, used) ==
    \/ /\ "Available To Use" \notin cssm_columns
       /\ \E j \in 1..Len(b.sku_match) : b.sku_match[j] \notin used
    \/ /\ "Subscription End Date" \notin cssm_columns
       /\ b.claimed # 0

\* an iteration that reads today and ends in branch msg
Iteration(msg, colour, fill) ==
    /\ pc = "loop"
    /\ idx < Len(pre_ea)
    /\ \E today \in TodayReads :
        \E b \in {LoopBody(cssm, pid_to_skus_map, row, used_cssm_indices, today)} :
            /\ b.msg = msg
            /\ ~KeyErrorInLoop(b, used_cssm_indices)
            /\ Mark(today, b, colour, fill)

\* an iteration that raises KeyError to the caller; the claim of line 103
\* precedes the KeyError of line 121
RaiseInLoop ==
    /\ pc = "loop"
    /\ idx < Len(pre_ea)
    /\ \E today \in TodayReads :
        \E b \in {LoopBody(cssm, pid_to_skus_map, row, used_cssm_indices, today)} :
            /\ KeyErrorInLoop(b, used_cssm_indices)
            /\ used_cssm_indices' =
                    IF b.claimed = 0 THEN used_cssm_indices
                    ELSE used_cssm_indices \cup {b.claimed}
            /\ clock' = today
            /\ ticks' = IF today = clock THEN ticks ELSE ticks + 1
    /\ pc' = "raised"
    /\ UNCHANGED <<inputs, outside, out_file, cssm, pre_ea, run, idx, ws, counters, log, hist, rets>>

\* compare_and_save raises before line 35
RaiseOnLoad ==
    /\ pc = "idle"
    /\ LoadRaises
    /\ pc' = "raised"
    /\ run' = run + 1
    /\ UNCHANGED <<inputs, outside, out_file, cssm, pre_ea, clock, ticks, idx, used_cssm_indices, ws,
                   counters, log, hist, rets>>

\* lines 60-65
MarkPurple ==
    /\ Iteration("EXPIRED_ALREADY", "PURPLE", PINK_FILL)
    /\ pink_rows' = pink_rows + 1
    /\ UNCHANGED <<red_rows, blue_rows, yellow_rows, green_rows>>

\* lines 66-72
MarkRedPrimary ==
    /\ Iteration("NO_PRIMARY_MATCH", "RED", RED_FILL)
    /\ red_rows' = red_rows + 1
    /\ UNCHANGED <<blue_rows, yellow_rows, green_rows, pink_rows>>

\* a faulty variant of MarkRedSku: line 79 is missing, the row is not counted
MarkRedSkuUncounted ==
    /\ Iteration("NO_SECONDARY_MATCH", "RED", RED_FILL)
    /\ UNCHANGED <<red_rows, blue_rows, yellow_rows, green_rows, pink_rows>>

\* lines 73-80
MarkRedSku ==
    /\ Iteration("NO_SECONDARY_MATCH", "RED", RED_FILL)
    /\ red_rows' = red_rows + 1
    /\ UNCHANGED <<blue_rows, yellow_rows, green_rows, pink_rows>>

\* a faulty variant of MarkBlue: the record names BLUE and the row is filled
\* blue, but the row is counted as RED
MarkBlueCountedRed ==
    /\ Iteration("NO_QUANTITY_MATCH", "BLUE", BLUE_FILL)
    /\ red_rows' = red_rows + 1
    /\ UNCHANGED <<blue_rows, yellow_rows, green_rows, pink_rows>>

\* lines 82-115
MarkBlue ==
    /\ Iteration("NO_QUANTITY_MATCH", "BLUE", BLUE_FILL)
    /\ blue_rows' = blue_rows + 1
    /\ UNCHANGED <<red_rows, yellow_rows, green_rows, pink_rows>>

\* lines 82-107 with a match, then lines 120-127
MarkYellowInvalid ==
    /\ Iteration("DATE_INVALID", "YELLOW", YELLOW_FILL)
    /\ yellow_rows' = yellow_rows + 1
    /\ UNCHANGED <<red_rows, blue_rows, green_rows, pink_rows>>

\* lines 82-107 with a match, then lines 129-133
MarkGreen ==
    /\ Iteration("ACCEPTED", "GREEN", GREEN_FILL)
    /\ green_rows' = green_rows + 1
    /\ UNCHANGED <<red_rows, blue_rows, yellow_rows, pink_rows>>

\* lines 82-107 with a match, then lines 134-138
MarkYellowAfter ==
    /\ Iteration("DATE_OUT_OF_RANGE", "YELLOW", YELLOW_FILL)
    /\ yellow_rows' = yellow_rows + 1
    /\ UNCHANGED <<red_rows, blue_rows, green_rows, pink_rows>>

\* a faulty variant of EnterRun: the claimed set lives on the instance and
\* is not emptied at line 44
EnterRunKeepingClaims ==
    /\ ~LoadRaises
    /\ cssm' = LoadCssm(ReadCssm(cssm_file, cssm_columns))
    /\ pre_ea' = ReadPreEa(pre_ea_file, pre_ea_columns)
    /\ out_file' = "copy"
    /\ pc' = "loop"
    /\ run' = run + 1
    /\ idx' = 0
    /\ used_cssm_indices' = used_cssm_indices
    /\ ws' = [r \in 1..(Len(pre_ea_file) + 1) |-> [col \in 1..NCols |-> NO_FILL]]
    /\ red_rows' = 0 /\ blue_rows' = 0 /\ yellow_rows' = 0
    /\ green_rows' = 0 /\ pink_rows' = 0
    /\ UNCHANGED <<inputs, outside, clock, ticks, log, hist, rets>>

\* lines 20-44: load both files, copy the PRE-EA workbook, zero the locals
EnterRun ==
    /\ ~LoadRaises
    /\ cssm' = LoadCssm(ReadCssm(cssm_file, cssm_columns))
    /\ pre_ea' = ReadPreEa(pre_ea_file, pre_ea_columns)
    /\ out_file' = "copy"
    /\ pc' = "loop"
    /\ run' = run + 1
    /\ idx' = 0
    /\ used_cssm_indices' = {}
    /\ ws' = [r \in 1..(Len(pre_ea_file) + 1) |-> [col \in 1..NCols |-> NO_FILL]]
    /\ red_rows' = 0 /\ blue_rows' = 0 /\ yellow_rows' = 0
    /\ green_rows' = 0 /\ pink_rows' = 0
    /\ UNCHANGED <<inputs, outside, clock, ticks, log, hist, rets>>

\* the first compare_and_save call on the instance
StartRun ==
    /\ pc = "idle"
    /\ EnterRun

\* a further compare_and_save call on the same instance, same arguments
Rerun ==
    /\ pc = "done"
    /\ run < MaxRuns
    /\ EnterRun

\* lines 140-146: save and return
Finish ==
    /\ pc = "loop"
    /\ idx = Len(pre_ea)
    /\ pc' = "done"
    /\ out_file' = "saved"
    /\ rets' = Append(rets, <<"out_path", red_rows, blue_rows, yellow_rows,
                              green_rows, pink_rows, "elapsed">>)
    /\ UNCHANGED <<inputs, outside, cssm, pre_ea, clock, ticks, run, idx, used_cssm_indices, ws, counters,
                   log, hist>>

Next ==
    \/ StartRun
    \/ MarkPurple
    \/ MarkRedPrimary
    \/ MarkRedSku
    \/ MarkBlue
    \/ MarkYellowInvalid
    \/ MarkGreen
    \/ MarkYellowAfter
    \/ Finish

NextRerun == Next \/ Rerun

NextLoad == Next \/ RaiseOnLoad \/ RaiseInLoop

\* ---- utils/mapping_utils.py: load_pid_to_skus_map
\* A value of the parsed mapping document, and of the dict the loader
\* returns: a str, a number, null/None or a list; an object is the sequence
\* of its entries [key, value] in document order, its keys distinct.
PyS(s) == [t |-> "str", s |-> s]
PyN(n) == [t |-> "num", n |-> n]
PyNull == [t |-> "null"]
PyL(v) == [t |-> "list", v |-> v]
PyO(items) == [t |-> "obj", items |-> items]
Entry(key, value) == [key |-> key, value |-> value]

\* no file at the path; a file that json.load rejects
NoFile == [t |-> "missing"]
NotJson == [t |-> "invalid"]

\* no alias map was loaded yet
Unset == [branch |-> "unset"]

\* str(v) of a list element
StrOf(v) ==
    CASE v.t = "str" -> v.s
      [] v.t = "num" -> Digits(v.n)
      [] v.t = "null" -> <<"N", "o", "n", "e">>

\* a faulty variant of normalized: an entry whose value is neither a list
\* nor a string discards what was collected before it
RECURSIVE normalizedLosingEntries(_, _)
normalizedLosingEntries(items, acc) ==
    IF items = <<>> THEN acc
    ELSE LET key == Head(items).key
             value == Head(items).value
         IN  normalizedLosingEntries(Tail(items),
                IF value.t = "list"
                THEN (Strip(key) :> PyL([j \in 1..Len(value.v) |-> PyS(Strip(StrOf(value.v[j])))]))
                        @@ acc
                ELSE IF value.t = "str"
                THEN (Strip(key) :> PyL(<<PyS(Strip(value.s))>>)) @@ acc
                ELSE <<>>)

\* lines 30-36: normalized after the entries items, starting from acc; a
\* later entry replaces an earlier one of the same stripped key
RECURSIVE normalized(_, _)
normalized(items, acc) ==
    IF items = <<>> THEN acc
    ELSE LET key == Head(items).key
             value == Head(items).value
         IN  normalized(Tail(items),
                IF value.t = "list"
                THEN (Strip(key) :> PyL([j \in 1..Len(value.v) |-> PyS(Strip(StrOf(value.v[j])))]))
                        @@ acc
                ELSE IF value.t = "str"
                THEN (Strip(key) :> PyL(<<PyS(Strip(value.s))>>)) @@ acc
                ELSE acc)

\* line 36: the keys warned about, in document order
RECURSIVE ignored(_)
ignored(items) ==
    IF items = <<>> THEN <<>>
    ELSE (IF Head(items).value.t \in {"list", "str"} THEN <<>> ELSE <<Head(items).key>>)
            \o ignored(Tail(items))

\* what a call gives: the dict returned, the keys warned about, and the
\* branch taken
MapResult(map, warned, branch) == [raised |-> FALSE, map |-> map, warned |-> warned, branch |-> branch]

\* a faulty variant of load_pid_to_skus_map: only FileNotFoundError is
\* caught, lines 42-44 are missing
load_map_catching_only_missing(path, file) ==
    IF path = "None" /\ file = NoFile THEN MapResult(<<>>, <<>>, "no mapping")
    ELSE IF file = NoFile THEN MapResult(<<>>, <<>>, "FileNotFoundError")
    ELSE IF file = NotJson THEN [MapResult(<<>>, <<>>, "Exception") EXCEPT !.raised = TRUE]
    ELSE IF file.t # "obj" THEN [MapResult(<<>>, <<>>, "Exception") EXCEPT !.raised = TRUE]
    ELSE MapResult(normalized(file.items, <<>>), ignored(file.items), "loaded")

\* lines 6-44
load_pid_to_skus_map(path, file) ==
    IF path = "None" /\ file = NoFile THEN MapResult(<<>>, <<>>, "no mapping")
    ELSE IF file = NoFile THEN MapResult(<<>>, <<>>, "FileNotFoundError")
    ELSE IF file = NotJson THEN MapResult(<<>>, <<>>, "Exception")
    ELSE IF file.t # "obj" THEN MapResult(<<>>, <<>>, "Exception")
    ELSE MapResult(normalized(file.items, <<>>), ignored(file.items), "loaded")

\* a call of load_pid_to_skus_map(mapping_path)
LoadMap ==
    /\ map_out = Unset
    /\ map_out' = load_pid_to_skus_map(mapping_path, sku_map_file)
    /\ UNCHANGED <<inputs, out_file, mapping_path, sku_map_file, uploaded, report, cleaning, cli, flagging, output_dir,
                   df_logs, cssm, pre_ea, clock,
                   ticks, pc, run, idx, used_cssm_indices, ws, counters, log, hist, rets>>

NextMap == LoadMap

\* ---- the callers' alias maps
\* a Python dict, as the function from its keys to its values
PyD(d) == [t |-> "dict", d |-> d]

\* no file was uploaded (mapping_file is None)
NoUpload == [t |-> "none"]

\* the dict json.load makes of an object's entries
RECURSIVE AsDict(_)
AsDict(items) ==
    IF items = <<>> THEN <<>>
    ELSE (items[Len(items)].key :> items[Len(items)].value)
            @@ AsDict(SubSeq(items, 1, Len(items) - 1))

\* the characters of the model, in code point order
Alphabet ==
    <<" ", ",", "/", "0", "1", "2", "3", "4", "5", "6", "7", "8", "9",
      "A", "B", "N", "Q", "X", "Y", "Z", "a", "e", "n", "o">>

Ord(c) == CHOOSE i \in 1..Len(Alphabet) : Alphabet[i] = c

\* a < b for Python str
RECURSIVE StrLess(_, _)
StrLess(a, b) ==
    IF b = <<>> THEN FALSE
    ELSE IF a = <<>> THEN TRUE
    ELSE IF Head(a) = Head(b) THEN StrLess(Tail(a), Tail(b))
    ELSE Ord(Head(a)) < Ord(Head(b))

\* sorted(keys)
RECURSIVE SortedKeys(_)
SortedKeys(keys) ==
    IF keys = {} THEN <<>>
    ELSE LET least == CHOOSE k \in keys : \A other \in keys \ {k} : StrLess(k, other)
         IN  <<least>> \o SortedKeys(keys \ {least})

\* ", ".join(parts) for a sequence of str
RECURSIVE Join(_)
Join(parts) ==
    IF parts = <<>> THEN <<>>
    ELSE IF Len(parts) = 1 THEN parts[1]
    ELSE parts[1] \o <<",", " ">> \o Join(Tail(parts))

\* text.split(",")
RECURSIVE Split(_, _)
Split(text, piece) ==
    IF text = <<>> THEN <<piece>>
    ELSE IF Head(text) = "," THEN <<piece>> \o Split(Tail(text), <<>>)
    ELSE Split(Tail(text), Append(piece, Head(text)))

\* line 82: ", ".join(skus) raises TypeError unless skus is a str or a
\* list of str
Joinable(skus) ==
    \/ skus.t = "str"
    \/ skus.t = "list" /\ \A j \in 1..Len(skus.v) : skus.v[j].t = "str"

JoinSkus(skus) ==
    IF skus.t = "str" THEN Join([j \in 1..Len(skus.s) |-> <<skus.s[j]>>])
    ELSE Join([j \in 1..Len(skus.v) |-> skus.v[j].s])

\* lines 80-82: the rows of the mapping table
editable_rows(map) ==
    LET keys == SortedKeys(DOMAIN map)
    IN  [j \in 1..Len(keys) |-> [pid |-> keys[j], skus |-> JoinSkus(map[keys[j]])]]

\* line 91
sku_list(skus_text) ==
    LET pieces == Split(skus_text, <<>>)
        kept == SelectSeq(pieces, LAMBDA piece : Strip(piece) # <<>>)
    IN  [j \in 1..Len(kept) |-> PyS(Strip(kept[j]))]

\* lines 86-93: the edited table back to a dict
RECURSIVE updated_map(_, _)
updated_map(rows, acc) ==
    IF rows = <<>> THEN acc
    ELSE LET pid == Strip(Head(rows).pid)
             skus == sku_list(Strip(Head(rows).skus))
         IN  updated_map(Tail(rows),
                IF pid = <<>> \/ skus = <<>> THEN acc ELSE (pid :> PyL(skus)) @@ acc)

\* lines 62-76: the mapping the sidebar starts from
initial_mapping(upload, default_file) ==
    IF upload = NoUpload THEN load_pid_to_skus_map("given", default_file).map
    ELSE IF upload = NotJson \/ upload.t # "obj" THEN <<>>
    ELSE AsDict(upload.items)

\* lines 47-125 of streamlit_excel_comparator.main for the table edit
\* `added` (rows appended by the user): the map handed to compare_and_save,
\* or TypeError out of line 82
streamlit_mapping(upload, default_file, added) ==
    LET first == initial_mapping(upload, default_file)
    IN  IF \E key \in DOMAIN first : ~Joinable(first[key])
        THEN [raised |-> TRUE, map |-> PyD(<<>>), warned |-> <<>>, branch |-> "streamlit"]
        ELSE LET edited == updated_map(editable_rows(first) \o added, <<>>)
             IN  [raised |-> FALSE,
                  map |-> PyD(IF edited = <<>>
                              THEN load_pid_to_skus_map("given", default_file).map
                              ELSE edited),
                  warned |-> <<>>, branch |-> "streamlit"]

\* lines 11-15 of test_excel_comparator.main: the map handed to
\* compare_and_save, or json.load's error
test_main_mapping(path, file) ==
    IF path = "None" \/ file = NoFile
    THEN [raised |-> FALSE, map |-> PyD(<<>>), warned |-> <<>>, branch |-> "test_main"]
    ELSE IF file = NotJson
    THEN [raised |-> TRUE, map |-> PyD(<<>>), warned |-> <<>>, branch |-> "test_main"]
    ELSE [raised |-> FALSE,
          map |-> IF file.t = "obj" THEN PyD(AsDict(file.items)) ELSE file,
          warned |-> <<>>, branch |-> "test_main"]

\* the rows a user may add to the mapping table
AddedRows ==
    { <<>>,
      << [pid |-> <<" ", "B", " ">>, skus |-> <<" ", "Y", " ", ",", " ", ",", "Z">>] >>,
      << [pid |-> <<" ">>, skus |-> <<"Y">>] >>,
      << [pid |-> <<"Q">>, skus |-> <<" ", ",", " ">>] >> }

\* the sidebar of the Streamlit page builds the alias map
StreamlitMapping ==
    /\ map_out = Unset
    /\ \E added \in AddedRows : map_out' = streamlit_mapping(uploaded, sku_map_file, added)
    /\ UNCHANGED <<inputs, out_file, mapping_path, sku_map_file, uploaded, report, cleaning, cli, flagging, output_dir,
                   df_logs, cssm, pre_ea, clock,
                   ticks, pc, run, idx, used_cssm_indices, ws, counters, log, hist, rets>>

\* test_excel_comparator.main builds the alias map
TestMainMapping ==
    /\ map_out = Unset
    /\ map_out' = test_main_mapping(mapping_path, sku_map_file)
    /\ UNCHANGED <<inputs, out_file, mapping_path, sku_map_file, uploaded, report, cleaning, cli, flagging, output_dir,
                   df_logs, cssm, pre_ea, clock,
                   ticks, pc, run, idx, used_cssm_indices, ws, counters, log, hist, rets>>

NextCallers == LoadMap \/ StreamlitMapping \/ TestMainMapping

\* ---- what the callers do with the value compare_and_save returns
\* no caller has handled a returned value yet
NoReport == [caller |-> "none"]

\* a path; a tuple; None, as the values a caller's name is bound to
PyPath(p) == [t |-> "path", p |-> p]
PyTuple(v) == [t |-> "tuple", v |-> v]
PyNone == [t |-> "None"]

\* a, b, ... = ret with n names on the left: ValueError unless ret has n items
Unpacks(ret, n) == Len(ret) = n

\* streamlit_excel_comparator.main lines 145-162 for the returned tuple ret:
\* the unpacking of line 145 into six names, then either the success
\* message, the download button and the summary, or the except of line 151
streamlit_report(ret) ==
    IF Unpacks(ret, 6)
    THEN [caller |-> "streamlit", success |-> TRUE, error |-> FALSE,
          out_path |-> PyPath(ret[1]),
          summary |-> <<ret[2], ret[3], ret[4], ret[5]>>]
    ELSE [caller |-> "streamlit", success |-> FALSE, error |-> TRUE,
          out_path |-> PyNone, summary |-> <<>>]

\* test_excel_comparator.main lines 24-25: the name out_path is bound to the
\* whole returned value and printed
test_main_report(ret) ==
    [caller |-> "test_main", success |-> TRUE, error |-> FALSE,
     out_path |-> PyTuple(ret), summary |-> <<>>]

\* the continuation of a caller after compare_and_save returned
CallerStep(shown) ==
    /\ pc = "done"
    /\ report = NoReport
    /\ report' = shown
    /\ UNCHANGED <<inputs, out_file, mapping_path, sku_map_file, map_out, uploaded, cleaning, cli, flagging, output_dir,
                   df_logs, cssm, pre_ea, clock, ticks, pc, run, idx, used_cssm_indices, ws, counters, log, hist, rets>>

\* 'Run comparison' of the Streamlit page, after the call of line 145
StreamlitRun == CallerStep(streamlit_report(rets[Len(rets)]))

\* test_excel_comparator.main, after the call of line 24
TestMainRun == CallerStep(test_main_report(rets[Len(rets)]))

NextReport == Next \/ StreamlitRun \/ TestMainRun

\* ---- the row-by-row results table of the Streamlit page
\* no table was built yet
NoTable == [shown |-> FALSE]

\* the colours the alternation of row_pattern (line 13) accepts after
\* 'Marking as'
PatternColours == {"RED", "BLUE", "YELLOW", "GREEN"}

\* row_pattern.search(line) for the line of a per-row record
Matches(record) == record.colour \in PatternColours

\* parse_log_table, lines 11-29: one table row per matching line, with the
\* groups 1 and 4 of the match
RECURSIVE parse_log_table(_)
parse_log_table(lines) ==
    IF lines = <<>> THEN <<>>
    ELSE (IF Matches(Head(lines))
          THEN << [Row |-> Head(lines).row, Result |-> Head(lines).colour] >>
          ELSE <<>>) \o parse_log_table(Tail(lines))

\* lines 164-174: the page reads the log of the finished run and shows the table
ShowTable ==
    /\ pc = "done"
    /\ df_logs = NoTable
    /\ df_logs' = [shown |-> TRUE, rows |-> parse_log_table(log)]
    /\ UNCHANGED <<inputs, out_file, mapping_path, sku_map_file, map_out, uploaded, report,
                   cleaning, cli, flagging, output_dir, cssm, pre_ea, clock, ticks, pc, run,
                   idx, used_cssm_indices, ws, counters, log, hist, rets>>

NextTable == Next \/ ShowTable

\* ---- compare_excels.main (the same loop is
\* ExcelComparator.compare_excels_in_memory of utils/excel_comparator.py)
MainNotStarted == [pc |-> "idle", idx |-> 0, log |-> <<>>, counts |-> <<0, 0, 0, 0>>]

\* lines 84-89: cssm_qty != pre_ea_qty, where cssm_qty is int(cell) or None
\* when int() raises; None differs from everything but None
MainQuantityDiffers(avail, qty) ==
    LET cssm_qty == PyInt(avail)
    IN  IF cssm_qty.ok THEN ~IntEqCell(cssm_qty.n, qty) ELSE qty.k # "none"

\* lines 50-118: the control flow of one iteration of main for the PRE-EA
\* row r; cssm_row is sku_match.iloc[0]
MainBody(frame, map, r) ==
    LET alc_order_number_str == Strip(PyStr(r.alc))
        pre_ea_migrated_pid_str == Strip(PyStr(r.pid))
        cssm_matches == CssmMatches(frame, alc_order_number_str)
        sku_match == get_valid_sku_matches(frame, cssm_matches, pre_ea_migrated_pid_str, map)
    IN  IF cssm_matches = <<>> THEN Branch("NO_PRIMARY_MATCH", <<>>, 0)
        ELSE IF sku_match = <<>> THEN Branch("NO_SECONDARY_MATCH", sku_match, 0)
        ELSE IF MainQuantityDiffers(frame[sku_match[1]].avail, r.qty)
        THEN Branch("NO_QUANTITY_MATCH", sku_match, 0)
        ELSE DateStage(frame, r, sku_match, sku_match[1])

\* the iteration raises KeyError: line 82 without 'Available To Use', line
\* 98 without 'Subscription End Date'
MainKeyError(b) ==
    \/ "Available To Use" \notin cssm_columns /\ b.sku_match # <<>>
    \/ "Subscription End Date" \notin cssm_columns /\ b.claimed # 0

\* the colour main logs and fills for a branch, and its place in the
\* counters red_rows, blue_rows, yellow_rows, green_rows
MainColour(msg) ==
    CASE msg \in {"NO_PRIMARY_MATCH", "NO_SECONDARY_MATCH"} -> "RED"
      [] msg = "NO_QUANTITY_MATCH" -> "BLUE"
      [] msg \in {"DATE_INVALID", "DATE_OUT_OF_RANGE"} -> "YELLOW"
      [] msg = "ACCEPTED" -> "GREEN"

MainCounter(colour) ==
    CASE colour = "RED" -> 1 [] colour = "BLUE" -> 2
      [] colour = "YELLOW" -> 3 [] colour = "GREEN" -> 4

MainUnchanged ==
    UNCHANGED <<inputs, out_file, mapping_path, sku_map_file, map_out, uploaded, report,
                cleaning, flagging, output_dir, df_logs, cssm, pre_ea, clock, ticks, pc, run, idx, used_cssm_indices, ws,
                counters, log, hist, rets>>

\* lines 17-47: main loads both files and zeroes its counters
MainStart ==
    /\ cli.pc = "idle"
    /\ ~LoadRaises
    /\ cli' = [cli EXCEPT !.pc = "loop"]
    /\ MainUnchanged

\* lines 49-118: one iteration of the row loop of main
MainIteration ==
    /\ cli.pc = "loop"
    /\ cli.idx < Len(pre_ea_file)
    /\ \E frame \in {LoadCssm(ReadCssm(cssm_file, cssm_columns))} :
        \E b \in {MainBody(frame, pid_to_skus_map,
                           ReadPreEa(pre_ea_file, pre_ea_columns)[cli.idx + 1])} :
            /\ ~MainKeyError(b)
            /\ cli' = [cli EXCEPT
                    !.idx = @ + 1,
                    !.log = Append(@, [row |-> cli.idx + 2, msg |-> b.msg,
                                       colour |-> MainColour(b.msg), matched |-> b.claimed]),
                    !.counts[MainCounter(MainColour(b.msg))] = @ + 1]
    /\ MainUnchanged

\* lines 120-123: main saves the workbook and logs the summary
MainFinish ==
    /\ cli.pc = "loop"
    /\ cli.idx = Len(pre_ea_file)
    /\ cli' = [cli EXCEPT !.pc = "done"]
    /\ MainUnchanged

NextMain == MainStart \/ MainIteration \/ MainFinish

\* compare_excels.main is started on the files of a finished compare_and_save run
MainStartAfterRun ==
    /\ pc = "done"
    /\ MainStart

NextBoth == Next \/ MainStartAfterRun \/ MainIteration \/ MainFinish

\* ---- ExcelFileComparator.compute_licensing_files
\* (excel_tools/excel_file_comparator_dict.py)
NotFlagging == [pc |-> "idle", Flag |-> <<>>]

\* line 72: pd.to_datetime of an 'Expiration Date' cell that is a Timestamp
\* or empty (NaT, here NoneVal); the inputs hold no other kind
ToDatetime(c) == IF c.k = "ts" THEN c.date ELSE NoneVal

\* line 74: the mask 'Expiration Date' < today; NaT compares False
ExpiredMask(r, today) == ToDatetime(r.exp) # NoneVal /\ DateLT(ToDatetime(r.exp), today)

\* find_common_items_in_columns: the str().strip() values the two columns share
common_items(column1, column2) ==
    {Strip(PyStr(column1[i])) : i \in 1..Len(column1)}
        \cap {Strip(PyStr(column2[i])) : i \in 1..Len(column2)}

\* str(list) of a list of str: "['Y', 'Z']"
RECURSIVE ReprItems(_)
ReprItems(items) ==
    IF items = <<>> THEN <<>>
    ELSE <<"'">> \o Head(items) \o <<"'">>
            \o (IF Len(items) > 1 THEN <<",", " ">> ELSE <<>>) \o ReprItems(Tail(items))

PyReprList(items) == <<"[">> \o ReprItems(items) \o <<"]">>

\* line 97 then astype(str).str.strip(): Series.map(pid_to_skus_map) puts the
\* mapped list in place of a cell that is a key of the map, fillna keeps the
\* other cells
MappedPid(c, map) ==
    IF c.k = "str" /\ c.s \in DOMAIN map THEN Strip(PyReprList(map[c.s]))
    ELSE Strip(PyStr(c))

\* lines 89 and 104: df_pre_ea.loc[~mask, 'Flag'] = 'RED'
FlagRed(Flag, matching) ==
    [i \in 1..Len(Flag) |-> IF i \in matching THEN Flag[i] ELSE "RED"]

FlaggingUnchanged ==
    UNCHANGED <<inputs, out_file, mapping_path, sku_map_file, map_out, uploaded, report,
                cleaning, cli, output_dir, df_logs, cssm, pre_ea, clock, ticks, pc, run, idx, used_cssm_indices,
                ws, counters, log, hist, rets>>

\* lines 56-76: load both sheets, flag the expired rows PURPLE
FlagExpired ==
    /\ flagging.pc = "idle"
    /\ ~LoadRaises
    /\ flagging' = [pc |-> "expired",
                    Flag |-> [i \in 1..Len(pre_ea_file) |->
                                IF ExpiredMask(pre_ea_file[i], clock) THEN "PURPLE" ELSE ""]]
    /\ FlaggingUnchanged

\* lines 78-93: flag RED the rows whose ALC Order Number is no Source
\* Identifier
FlagRedPrimary ==
    /\ flagging.pc = "expired"
    /\ \E common_codes_id \in
            {common_items([i \in 1..Len(pre_ea_file) |-> pre_ea_file[i].alc],
                          [i \in 1..Len(cssm_file) |-> cssm_file[i].src])} :
        flagging' = [pc |-> "primary",
                     Flag |-> FlagRed(flagging.Flag,
                                {i \in 1..Len(pre_ea_file) :
                                    Strip(PyStr(pre_ea_file[i].alc)) \in common_codes_id})]
    /\ FlaggingUnchanged

\* lines 95-107: replace the mapped PIDs, flag RED the rows whose PID is no SKU
FlagRedSku ==
    /\ flagging.pc = "primary"
    /\ \E common_skus \in
            {{MappedPid(pre_ea_file[i].pid, pid_to_skus_map) : i \in 1..Len(pre_ea_file)}
                \cap {Strip(PyStr(cssm_file[i].sku)) : i \in 1..Len(cssm_file)}} :
        flagging' = [pc |-> "sku",
                     Flag |-> FlagRed(flagging.Flag,
                                {i \in 1..Len(pre_ea_file) :
                                    MappedPid(pre_ea_file[i].pid, pid_to_skus_map)
                                        \in common_skus})]
    /\ FlaggingUnchanged

\* lines 109-267: the rest of the run reads Flag and writes the workbook
FlagFinish ==
    /\ flagging.pc = "sku"
    /\ flagging' = [flagging EXCEPT !.pc = "done"]
    /\ FlaggingUnchanged

NextFlagging == FlagExpired \/ FlagRedPrimary \/ FlagRedSku \/ FlagFinish

\* ---- ensure_clean_dir (utils/fs_utils.py)
\* ensure_clean_dir is not running
NotCalled == [pc |-> "idle"]

\* the kinds of directory entry: what is_file(), is_symlink() and is_dir()
\* of os.DirEntry answer for each (is_file and is_dir follow symlinks)
EntryKinds ==
    {"file", "symlink_to_file", "symlink_to_dir", "broken_symlink", "dir", "fifo"}

is_file(entry) == entry.kind \in {"file", "symlink_to_file"}
is_symlink(entry) == entry.kind \in {"symlink_to_file", "symlink_to_dir", "broken_symlink"}
is_dir(entry) == entry.kind \in {"dir", "symlink_to_dir"}

\* a faulty variant of removal: the is_symlink() test of line 20 is missing
removalWithoutSymlinks(entry) ==
    IF is_file(entry) THEN "unlink"
    ELSE IF is_dir(entry) THEN "rmtree"
    ELSE "none"

\* lines 20-23: the call that removes the entry
removal(entry) ==
    IF is_file(entry) \/ is_symlink(entry) THEN "unlink"
    ELSE IF is_dir(entry) THEN "rmtree"
    ELSE "none"

\* the removing call raises: the entry cannot be removed (permissions, a
\* file in use), or shutil.rmtree is called on a symbolic link
RemovalRaises(entry, call) ==
    \/ ~entry.removable
    \/ call = "rmtree" /\ is_symlink(entry)

Without(entries, name) == [other \in DOMAIN entries \ {name} |-> entries[other]]

\* line 13 and the scandir of line 16: FileExistsError when the path is no
\* directory, the error of scandir when it cannot be listed (re-raised at
\* lines 26-28)
Makedirs ==
    /\ scan = NotCalled
    /\ dir_state' = IF dir_state = "missing" THEN "dir" ELSE dir_state
    /\ scan' = [pc |-> IF dir_state \in {"file", "unreadable"} THEN "raised" ELSE "scanning",
                at_call |-> dir_entries, visited |-> {}, warned |-> {}]
    /\ UNCHANGED <<inputs, out_file, mapping_path, sku_map_file, map_out, uploaded, report, cli, flagging, output_dir, df_logs,
                   dir_entries, cssm, pre_ea, clock, ticks, pc, run, idx, used_cssm_indices,
                   ws, counters, log, hist, rets>>

\* lines 17-25: one entry of the iteration
ScanEntry ==
    /\ scan # NotCalled
    /\ scan.pc = "scanning"
    /\ \E name \in DOMAIN scan.at_call \ scan.visited :
        \E call \in {removal(dir_entries[name])} :
            IF call = "none"
            THEN /\ dir_entries' = dir_entries
                 /\ scan' = [scan EXCEPT !.visited = @ \cup {name}]
            ELSE IF RemovalRaises(dir_entries[name], call)
            THEN /\ dir_entries' = dir_entries
                 /\ scan' = [scan EXCEPT !.visited = @ \cup {name}, !.warned = @ \cup {name}]
            ELSE /\ dir_entries' = Without(dir_entries, name)
                 /\ scan' = [scan EXCEPT !.visited = @ \cup {name}]
    /\ UNCHANGED <<inputs, out_file, mapping_path, sku_map_file, map_out, uploaded, report, cli, flagging, output_dir, df_logs,
                   dir_state, cssm, pre_ea, clock, ticks, pc, run, idx, used_cssm_indices,
                   ws, counters, log, hist, rets>>

\* the iteration is over, ensure_clean_dir returns
ReturnClean ==
    /\ scan # NotCalled
    /\ scan.pc = "scanning"
    /\ scan.visited = DOMAIN scan.at_call
    /\ scan' = [scan EXCEPT !.pc = "returned"]
    /\ UNCHANGED <<inputs, out_file, mapping_path, sku_map_file, map_out, uploaded, report, cli, flagging, output_dir, df_logs,
                   dir_state, dir_entries, cssm, pre_ea, clock, ticks, pc, run, idx,
                   used_cssm_indices, ws, counters, log, hist, rets>>

NextClean == Makedirs \/ ScanEntry \/ ReturnClean

\* ---- the output directory over constructions and runs
\* (ExcelFileComparator.__init__, compare_excels __main__)
\* the directory right after a first cleaning that left nothing
FreshOutputDir == [pc |-> "none", cleanups |-> 0, entries |-> <<>>]

\* a faulty variant of Cleaned: output workbooks are left in place
CleanedKeepingWorkbooks(entries) ==
    LET kept == {name \in DOMAIN entries :
                    \/ name = "workbook"
                    \/ removal(entries[name]) = "none"
                    \/ RemovalRaises(entries[name], removal(entries[name]))}
    IN  [name \in kept |-> entries[name]]

\* the entries ensure_clean_dir leaves when it returns: those it has no
\* removing call for and those whose removal raised
Cleaned(entries) ==
    LET kept == {name \in DOMAIN entries :
                    \/ removal(entries[name]) = "none"
                    \/ RemovalRaises(entries[name], removal(entries[name]))}
    IN  [name \in kept |-> entries[name]]

\* a file written now
Written(removable) ==
    [kind |-> "file", removable |-> removable, born |-> output_dir.cleanups]

OutputDirUnchanged ==
    UNCHANGED <<inputs, out_file, mapping_path, sku_map_file, map_out, uploaded, report,
                cleaning, cli, flagging, df_logs, cssm, pre_ea, clock, ticks, pc, run, idx,
                used_cssm_indices, ws, counters, log, hist, rets>>

\* __init__ line 17, __main__ line 137: ensure_clean_dir(output_dir) returns
CleanOutputDir ==
    /\ output_dir.pc \in {"none", "ready"}
    /\ output_dir.cleanups < MaxRuns
    /\ output_dir' = [pc |-> "cleaned", cleanups |-> output_dir.cleanups + 1,
                      entries |-> Cleaned(output_dir.entries)]
    /\ OutputDirUnchanged

\* __init__ line 18, __main__ line 143: setup_logging opens the log file
\* with mode 'w', which creates it or empties the one that is there
OpenLogFile ==
    /\ output_dir.pc = "cleaned"
    /\ \E removable \in BOOLEAN :
        output_dir' = [output_dir EXCEPT
                        !.pc = "ready",
                        !.entries = ("log" :> Written(removable)) @@ @]
    /\ OutputDirUnchanged

\* compare_and_save lines 35 and 140, main lines 37 and 120: the output
\* workbook is written
SaveWorkbook ==
    /\ output_dir.pc = "ready"
    /\ \E removable \in BOOLEAN :
        output_dir' = [output_dir EXCEPT
                        !.entries = ("workbook" :> Written(removable)) @@ @]
    /\ OutputDirUnchanged

NextOutputDir == CleanOutputDir \/ OpenLogFile \/ SaveWorkbook

\* ---- the inputs of a run
Consumer(alc, pid, qty, exp) == [alc |-> alc, pid |-> pid, qty |-> qty, exp |-> exp]
Producer(src, sku, avail, endd) == [src |-> src, sku |-> sku, avail |-> avail, endd |-> endd]

Today0 == <<2030, 1, 2>>

\* PRE-EA rows.  "03/02/2030" is 2 March under %m/%d/%Y, "01/02/2030" is
\* Today0 and "01/01/2030" the day before; "n/a" parses under no format.
ConsumerRows ==
    { Consumer(StrCell(<<"1">>), StrCell(<<"X">>), IntCell(3), DateStr("n/n/n", 3, 2, 2030)),
      Consumer(IntCell(1), StrCell(<<" ", "A">>), FloatCell(30), DateStr("n/n/n", 1, 2, 2030)),
      Consumer(StrCell(<<"9">>), StrCell(<<"X">>), IntCell(3), StrCell(<<"n", "/", "a">>)),
      Consumer(StrCell(<<"1", " ">>), StrCell(<<"X">>), IntCell(3), DateStr("n/n/n", 1, 1, 2030)) }

\* CSSM rows
ProducerRows ==
    { Producer(StrCell(<<"1">>), StrCell(<<"X">>), IntCell(3), DateStr("n-b-n T", 2031, 1, 1)),
      Producer(StrCell(<<" ", "1">>), StrCell(<<"Y", " ">>), StrCell(<<"3">>), DateStr("n-n-n", 2029, 1, 1)),
      Producer(IntCell(1), StrCell(<<"X">>), FloatCell(37), NaN),
      Producer(StrCell(<<"1">>), StrCell(<<"X">>), StrCell(<<"n", "/", "a">>), TsCell(<<2031, 1, 1>>)) }

\* alias maps: none, and A -> [Y], X -> [Y]
AliasMaps ==
    { <<>>,
      (<<"A">> :> << <<"Y">> >>) @@ (<<"X">> :> << <<"Y">> >>) }

\* the inputs of the repeated runs
RerunConsumerRows ==
    { Consumer(StrCell(<<"1">>), StrCell(<<"X">>), IntCell(3), DateStr("n/n/n", 1, 2, 2030)),
      Consumer(StrCell(<<"1">>), StrCell(<<"A">>), IntCell(3), StrCell(<<"n", "/", "a">>)) }

RerunProducerRows ==
    { Producer(StrCell(<<"1">>), StrCell(<<"X">>), IntCell(3), DateStr("n-b-n T", 2031, 1, 1)),
      Producer(StrCell(<<"1">>), StrCell(<<"X">>), IntCell(3), DateStr("n-n-n", 2029, 1, 1)) }

RerunAliasMaps ==
    { <<>>,
      (<<"A">> :> << <<"X">> >>) }

\* the inputs of the date-stage runs.  The CSSM text "02/03/2030" is read
\* day first (2 March 2030, the date of the PRE-EA text "03/02/2030"),
\* "2030-03-01" is the day before, NaN is no date.
DateConsumerRows ==
    { Consumer(StrCell(<<"1">>), StrCell(<<"X">>), IntCell(3), DateStr("n/n/n", 3, 2, 2030)),
      Consumer(StrCell(<<"1">>), StrCell(<<"X">>), IntCell(3), StrCell(<<"n", "/", "a">>)),
      Consumer(StrCell(<<"1">>), StrCell(<<"Q">>), IntCell(3), DateStr("n/n/n", 3, 2, 2030)),
      Consumer(StrCell(<<"9">>), StrCell(<<"X">>), IntCell(3), DateStr("n/n/n", 1, 1, 2030)) }

DateProducerRows ==
    { Producer(StrCell(<<"1">>), StrCell(<<"X">>), IntCell(3), DateStr("n/n/n", 2, 3, 2030)),
      Producer(StrCell(<<"1">>), StrCell(<<"X">>), IntCell(3), DateStr("n-n-n", 2030, 3, 1)),
      Producer(StrCell(<<"1">>), StrCell(<<"X">>), IntCell(3), NaN) }

\* the inputs of the runs with the same text on both sides: "03/02/2030"
\* parses under %d/%m/%Y and under %m/%d/%Y, "03/25/2030" only under
\* %m/%d/%Y
SameTextConsumerRows ==
    DateConsumerRows \cup
    { Consumer(StrCell(<<"1">>), StrCell(<<"X">>), IntCell(3), DateStr("n/n/n", 3, 25, 2030)) }

SameTextProducerRows ==
    { Producer(StrCell(<<"1">>), StrCell(<<"X">>), IntCell(3), DateStr("n/n/n", 3, 2, 2030)),
      Producer(StrCell(<<"1">>), StrCell(<<"X">>), IntCell(3), DateStr("n/n/n", 3, 25, 2030)),
      Producer(StrCell(<<"1">>), StrCell(<<"X">>), IntCell(3), NaN) }

SeqsUpTo(S, n) == UNION { [1..k -> S] : k \in 0..n }

\* both workbooks readable, with all the columns the code names
FilesComplete ==
    /\ cssm_columns = CssmColumns
    /\ pre_ea_columns = PreEaColumns
    /\ unreadable = {}

\* the inputs of the runs over defective workbooks
LoadConsumerRows ==
    { Consumer(StrCell(<<"1">>), StrCell(<<"X">>), IntCell(3), DateStr("n/n/n", 3, 2, 2030)),
      Consumer(StrCell(<<"1">>), StrCell(<<"X">>), NaN, DateStr("n/n/n", 3, 2, 2030)),
      Consumer(StrCell(<<"1">>), StrCell(<<"X">>), IntCell(3), StrCell(<<"n", "/", "a">>)),
      Consumer(StrCell(<<"9">>), StrCell(<<"X">>), StrCell(<<"3">>), DateStr("n/n/n", 1, 1, 2030)) }

LoadProducerRows ==
    { Producer(StrCell(<<"1">>), StrCell(<<"X">>), IntCell(3), DateStr("n-n-n", 2031, 1, 1)),
      Producer(StrCell(<<"1">>), StrCell(<<"X">>), StrCell(<<"n", "/", "a">>), NaN),
      Producer(StrCell(<<"1">>), StrCell(<<"X">>), IntCell(3), DateStr("n-n-n", 2029, 1, 1)) }

\* workbook shapes: complete, one workbook unreadable, one column absent
FileShapes ==
    { [cssm |-> CssmColumns, pre_ea |-> PreEaColumns, unreadable |-> {}],
      [cssm |-> CssmColumns, pre_ea |-> PreEaColumns, unreadable |-> {"cssm"}],
      [cssm |-> CssmColumns, pre_ea |-> PreEaColumns, unreadable |-> {"pre_ea"}],
      [cssm |-> CssmColumns \ {"SKU"}, pre_ea |-> PreEaColumns, unreadable |-> {}],
      [cssm |-> CssmColumns \ {"Available To Use"}, pre_ea |-> PreEaColumns, unreadable |-> {}],
      [cssm |-> CssmColumns \ {"Subscription End Date"}, pre_ea |-> PreEaColumns,
       unreadable |-> {}],
      [cssm |-> CssmColumns, pre_ea |-> PreEaColumns \ {"Pre EA Migrated Pid"},
       unreadable |-> {}] }

\* the mapping documents: objects of up to MaxEntries entries with distinct
\* keys, a document whose top level is a list, a file that is no JSON, no file
MapKeys == { <<"A">>, <<" ", "A">>, <<"B">> }

MapValues ==
    { PyL(<<PyS(<<"Y">>)>>),
      PyL(<<PyS(<<" ", "Y", " ">>), PyN(1)>>),
      PyS(<<" ", "Z">>),
      PyN(5),
      PyNull }

MapEntries == { Entry(key, value) : key \in MapKeys, value \in MapValues }

DistinctKeys(items) == \A a, b \in 1..Len(items) : a # b => items[a].key # items[b].key

MapDocuments ==
    { PyO(items) : items \in { q \in SeqsUpTo(MapEntries, MaxEntries) : DistinctKeys(q) } }
        \cup { PyL(<<>>), NotJson, NoFile }

\* the output directory was cleaned before the model starts
NoCleaning ==
    /\ dir_state = "dir"
    /\ dir_entries = <<>>
    /\ scan = NotCalled

\* the entries a directory may hold, by entry number
DirEntry == [kind : EntryKinds, removable : BOOLEAN]
Directories == UNION { [names -> DirEntry] : names \in SUBSET (1..MaxDirEntries) }

\* no alias map is being loaded
NoMapLoading ==
    /\ mapping_path = "None"
    /\ sku_map_file = NoFile
    /\ uploaded = NoUpload
    /\ map_out = Unset

\* ---- the state after ExcelFileComparator() is constructed
Constructed ==
    /\ out_file = "absent"
    /\ report = NoReport
    /\ NoCleaning
    /\ cli = MainNotStarted
    /\ flagging = NotFlagging
    /\ output_dir = FreshOutputDir
    /\ df_logs = NoTable
    /\ cssm = <<>>
    /\ pre_ea = <<>>
    /\ clock = Today0
    /\ ticks = 0
    /\ pc = "idle"
    /\ run = 0
    /\ idx = 0
    /\ used_cssm_indices = {}
    /\ ws = <<>>
    /\ red_rows = 0 /\ blue_rows = 0 /\ yellow_rows = 0
    /\ green_rows = 0 /\ pink_rows = 0
    /\ log = <<>>
    /\ hist = <<>>
    /\ rets = <<>>

Init ==
    /\ pre_ea_file \in SeqsUpTo(ConsumerRows, MaxConsumers)
    /\ cssm_file \in SeqsUpTo(ProducerRows, MaxProducers)
    /\ pid_to_skus_map \in AliasMaps
    /\ FilesComplete
    /\ NoMapLoading
    /\ Constructed

InitRerun ==
    /\ pre_ea_file \in SeqsUpTo(RerunConsumerRows, MaxConsumers)
    /\ cssm_file \in SeqsUpTo(RerunProducerRows, MaxProducers)
    /\ pid_to_skus_map \in RerunAliasMaps
    /\ FilesComplete
    /\ NoMapLoading
    /\ Constructed

InitDates ==
    /\ pre_ea_file \in SeqsUpTo(DateConsumerRows, MaxConsumers)
    /\ cssm_file \in SeqsUpTo(DateProducerRows, MaxProducers)
    /\ pid_to_skus_map = <<>>
    /\ FilesComplete
    /\ NoMapLoading
    /\ Constructed

InitSameText ==
    /\ pre_ea_file \in SeqsUpTo(SameTextConsumerRows, MaxConsumers)
    /\ cssm_file \in SeqsUpTo(SameTextProducerRows, MaxProducers)
    /\ pid_to_skus_map = <<>>
    /\ FilesComplete
    /\ NoMapLoading
    /\ Constructed

InitLoad ==
    /\ pre_ea_file \in SeqsUpTo(LoadConsumerRows, MaxConsumers)
    /\ cssm_file \in SeqsUpTo(LoadProducerRows, MaxProducers)
    /\ pid_to_skus_map = <<>>
    /\ \E shape \in FileShapes :
        /\ cssm_columns = shape.cssm
        /\ pre_ea_columns = shape.pre_ea
        /\ unreadable = shape.unreadable
    /\ NoMapLoading
    /\ Constructed

InitMap ==
    /\ pre_ea_file = <<>>
    /\ cssm_file = <<>>
    /\ pid_to_skus_map = <<>>
    /\ FilesComplete
    /\ mapping_path \in {"None", "given"}
    /\ sku_map_file \in MapDocuments
    /\ uploaded = NoUpload
    /\ map_out = Unset
    /\ Constructed

\* the inputs of the dict variant: 'Expiration Date' cells are Timestamps or
\* empty; 2030-01-01 is the day before Today0
FlagConsumerRows ==
    { Consumer(StrCell(<<"1">>), StrCell(<<"X">>), IntCell(3), TsCell(<<2030, 1, 1>>)),
      Consumer(StrCell(<<"9">>), StrCell(<<"X">>), IntCell(3), TsCell(<<2030, 1, 1>>)),
      Consumer(StrCell(<<"1">>), StrCell(<<"A">>), IntCell(3), TsCell(<<2030, 1, 1>>)),
      Consumer(StrCell(<<"1">>), StrCell(<<"X">>), IntCell(3), TsCell(<<2030, 1, 2>>)),
      Consumer(IntCell(1), StrCell(<<"Q">>), IntCell(3), NaN) }

FlagProducerRows ==
    { Producer(StrCell(<<"1">>), StrCell(<<"X">>), IntCell(3), TsCell(<<2031, 1, 1>>)),
      Producer(StrCell(<<" ", "1">>), StrCell(<<"Y">>), IntCell(3), TsCell(<<2031, 1, 1>>)) }

InitFlagging ==
    /\ pre_ea_file \in SeqsUpTo(FlagConsumerRows, MaxConsumers)
    /\ cssm_file \in SeqsUpTo(FlagProducerRows, MaxProducers)
    /\ pid_to_skus_map \in RerunAliasMaps \cup {(<<"A">> :> << <<"Y">> >>)}
    /\ FilesComplete
    /\ NoMapLoading
    /\ Constructed

\* what an earlier process may have left in the output directory
\* (an old log file, an old output workbook, an entry of any kind)
Leftovers ==
    UNION { {left \in [names -> [kind : EntryKinds, removable : BOOLEAN, born : {0}]] :
                \A name \in names \ {"other"} : left[name].kind = "file"} :
            names \in SUBSET {"log", "workbook", "other"} }

InitOutputDir ==
    /\ pre_ea_file = <<>>
    /\ cssm_file = <<>>
    /\ pid_to_skus_map = <<>>
    /\ FilesComplete
    /\ NoMapLoading
    /\ out_file = "absent"
    /\ report = NoReport
    /\ NoCleaning
    /\ cli = MainNotStarted
    /\ flagging = NotFlagging
    /\ df_logs = NoTable
    /\ \E left \in Leftovers : output_dir = [pc |-> "none", cleanups |-> 0, entries |-> left]
    /\ cssm = <<>> /\ pre_ea = <<>>
    /\ clock = Today0 /\ ticks = 0
    /\ pc = "idle" /\ run = 0 /\ idx = 0
    /\ used_cssm_indices = {}
    /\ ws = <<>>
    /\ red_rows = 0 /\ blue_rows = 0 /\ yellow_rows = 0
    /\ green_rows = 0 /\ pink_rows = 0
    /\ log = <<>> /\ hist = <<>> /\ rets = <<>>

\* the inputs of the runs of both entry points: complete workbooks, and
\* PRE-EA sheets without the column 'Quantity' or 'Pre EA Migrated Pid'
InitBoth ==
    /\ pre_ea_file \in SeqsUpTo(LoadConsumerRows, MaxConsumers)
    /\ cssm_file \in SeqsUpTo(LoadProducerRows, MaxProducers)
    /\ pid_to_skus_map = <<>>
    /\ cssm_columns = CssmColumns
    /\ pre_ea_columns \in {PreEaColumns, PreEaColumns \ {"Quantity"},
                           PreEaColumns \ {"Pre EA Migrated Pid"}}
    /\ unreadable = {}
    /\ NoMapLoading
    /\ Constructed

InitClean ==
    /\ pre_ea_file = <<>>
    /\ cssm_file = <<>>
    /\ pid_to_skus_map = <<>>
    /\ FilesComplete
    /\ NoMapLoading
    /\ out_file = "absent"
    /\ report = NoReport
    /\ cli = MainNotStarted
    /\ flagging = NotFlagging
    /\ output_dir = FreshOutputDir
    /\ df_logs = NoTable
    /\ dir_state \in {"missing", "file", "dir", "unreadable"}
    /\ dir_entries \in IF dir_state \in {"dir", "unreadable"} THEN Directories ELSE {<<>>}
    /\ scan = NotCalled
    /\ cssm = <<>> /\ pre_ea = <<>>
    /\ clock = Today0 /\ ticks = 0
    /\ pc = "idle" /\ run = 0 /\ idx = 0
    /\ used_cssm_indices = {}
    /\ ws = <<>>
    /\ red_rows = 0 /\ blue_rows = 0 /\ yellow_rows = 0
    /\ green_rows = 0 /\ pink_rows = 0
    /\ log = <<>> /\ hist = <<>> /\ rets = <<>>

\* the default sku_map.json of the callers
DefaultDocuments ==
    { NoFile, NotJson,
      PyO(<<Entry(<<" ", "A">>, PyL(<<PyS(<<" ", "Y", " ">>)>>)), Entry(<<"B">>, PyS(<<"Z">>))>>),
      PyO(<<Entry(<<"A">>, PyN(5))>>) }

InitCallers ==
    /\ pre_ea_file = <<>>
    /\ cssm_file = <<>>
    /\ pid_to_skus_map = <<>>
    /\ FilesComplete
    /\ mapping_path \in {"None", "given"}
    /\ sku_map_file \in DefaultDocuments
    /\ uploaded \in (MapDocuments \ {NoFile}) \cup {NoUpload}
    /\ map_out = Unset
    /\ Constructed

\* one compare_and_save call on a fresh instance
Spec == Init /\ [][Next]_vars

\* repeated compare_and_save calls on one instance
SpecRerun == InitRerun /\ [][NextRerun]_vars

\* one compare_and_save call over the date-stage inputs
SpecDates == InitDates /\ [][Next]_vars

\* one compare_and_save call over workbooks that may be defective
SpecLoad == InitLoad /\ [][NextLoad]_vars

\* one load_pid_to_skus_map call
SpecMap == InitMap /\ [][NextMap]_vars

\* one caller builds the alias map for compare_and_save
SpecCallers == InitCallers /\ [][NextCallers]_vars

\* constructions of a comparator (or starts of the CLI) and runs
SpecOutputDir == InitOutputDir /\ [][NextOutputDir]_vars

\* one compare_and_save call, then the Streamlit page shows its log as a table
SpecTable == Init /\ [][NextTable]_vars

\* one run of compute_licensing_files
SpecFlagging == InitFlagging /\ [][NextFlagging]_vars

\* compare_and_save, then compare_excels.main, on the same files
SpecBoth == InitBoth /\ [][NextBoth]_vars

\* one run of compare_excels.main
SpecMain == Init /\ [][NextMain]_vars

\* one run over workbooks whose date cells hold the same texts
SpecSameText == InitSameText /\ [][Next]_vars

\* one ensure_clean_dir call on any directory path
SpecClean == InitClean /\ [][NextClean]_vars

\* one compare_and_save call made by one of its callers
SpecReport == Init /\ [][NextReport]_vars

(***************************************************************************)
(* The properties.  Row i of the current run (1-based, i <= idx) is        *)
(* pre_ea[i]; its log record is CurLog(i) and its locals CurHist(i).       *)
(***************************************************************************)
RunBase == Len(log) - idx
CurLog(i) == log[RunBase + i]
CurHist(i) == hist[RunBase + i]
Processed == 1..idx

\* the CSSM rows claimed before row i was processed
UsedBefore(i) == {CurHist(k).matched : k \in 1..(i - 1)} \ {0}

QuantityPassed == {"ACCEPTED", "DATE_INVALID", "DATE_OUT_OF_RANGE"}
QuantityReached == QuantityPassed \cup {"NO_QUANTITY_MATCH"}

SeqRange(q) == {q[k] : k \in 1..Len(q)}

AlcOf(i) == Strip(PyStr(pre_ea[i].alc))
PidOf(i) == Strip(PyStr(pre_ea[i].pid))

\* C1: no CSSM row is claimed for two PRE-EA rows, the claimed set is the set
\* of rows claimed so far, and when the run is done its size is the number of
\* rows coloured GREEN or YELLOW.
C1_AtMostOneClaim ==
    /\ \A i, j \in Processed :
        (i # j /\ CurHist(i).matched # 0) => CurHist(i).matched # CurHist(j).matched
    /\ pc \in {"loop", "done"} => used_cssm_indices = UsedBefore(idx + 1)
    /\ pc = "done" =>
        /\ Cardinality(used_cssm_indices)
             = Cardinality({i \in Processed : CurLog(i).colour \in {"GREEN", "YELLOW"}})
        /\ Cardinality(used_cssm_indices) = green_rows + yellow_rows
        /\ \A i \in Processed :
             CurLog(i).colour \in {"GREEN", "YELLOW"} <=> CurLog(i).msg \in QuantityPassed

\* two PRE-EA rows passed the quantity stage in one run, with different CSSM rows
C1_Witness ==
    /\ pc = "done"
    /\ \E i, j \in Processed : i # j /\ CurHist(i).matched # 0 /\ CurHist(j).matched # 0

\* the CSSM rows of row i's candidates whose quantity int() equals row i's
QuantityMatches(i) ==
    {k \in SeqRange(CurHist(i).sku_match) :
        PyInt(cssm[k].avail).ok /\ IntEqCell(PyInt(cssm[k].avail).n, pre_ea[i].qty)}

Compete(i, j) ==
    /\ i < j
    /\ CurLog(i).msg \in QuantityReached
    /\ CurLog(j).msg \in QuantityReached
    /\ AlcOf(i) = AlcOf(j)
    /\ PidOf(i) = PidOf(j)
    /\ pre_ea[i].qty = pre_ea[j].qty
    /\ Cardinality(QuantityMatches(i)) = 1
    /\ QuantityMatches(i) \cap UsedBefore(i) = {}

\* C2: rows are processed in input order (record i is for worksheet row
\* i + 1), and of two rows with the same keys and quantity that compete for
\* a single eligible CSSM row, the earlier claims it and the later is
\* NO_QUANTITY_MATCH (BLUE).
C2_InputOrderWins ==
    /\ \A i \in Processed : CurLog(i).row = i + 1
    /\ \A i, j \in Processed :
        Compete(i, j) =>
            /\ CurHist(i).matched \in QuantityMatches(i)
            /\ CurLog(j).msg = "NO_QUANTITY_MATCH"
            /\ CurLog(j).colour = "BLUE"

C2_Witness == \E i, j \in Processed : Compete(i, j)

\* the requested expiration of row i, as line 57 parses it
ExpOf(i) == standardize_date(pre_ea[i].exp, <<FmtMDY>>)

\* C3: a row whose expiration parses and is before the today it was checked
\* against is EXPIRED_ALREADY (PURPLE) whatever else holds; a row whose
\* expiration is that today, or does not parse, is not.
C3_ExpiredDominates ==
    \A i \in Processed :
        /\ (ExpOf(i) # NoneVal /\ DateLT(ExpOf(i), CurHist(i).today))
              => (CurLog(i).msg = "EXPIRED_ALREADY" /\ CurLog(i).colour = "PURPLE")
        /\ (ExpOf(i) = NoneVal \/ ExpOf(i) = CurHist(i).today)
              => CurLog(i).msg # "EXPIRED_ALREADY"

\* an expired row that has a CSSM row of its keys and quantity free, and a
\* row expiring today that went on to the later stages
C3_Witness ==
    /\ \E i \in Processed :
        /\ CurLog(i).msg = "EXPIRED_ALREADY"
        /\ \E k \in 1..Len(cssm) :
            /\ cssm[k].src = AlcOf(i) /\ cssm[k].sku = PidOf(i)
            /\ Eligible(cssm, k, UsedBefore(i), pre_ea[i].qty)
    /\ \E i \in Processed :
        ExpOf(i) = CurHist(i).today /\ CurLog(i).msg \in QuantityPassed

\* ---- the stages of row i, stated on the data alone
Expired(i) == ExpOf(i) # NoneVal /\ DateLT(ExpOf(i), CurHist(i).today)

PrimaryRows(i) == {k \in 1..Len(cssm) : cssm[k].src = AlcOf(i)}

DirectRows(i) == {k \in PrimaryRows(i) : cssm[k].sku = PidOf(i)}

AliasRows(i) ==
    IF PidOf(i) \in DOMAIN pid_to_skus_map
    THEN {k \in PrimaryRows(i) : cssm[k].sku \in SeqRange(pid_to_skus_map[PidOf(i)])}
    ELSE {}

Candidates(i) == IF DirectRows(i) # {} THEN DirectRows(i) ELSE AliasRows(i)

FreeMatches(i) ==
    {k \in Candidates(i) :
        /\ k \notin UsedBefore(i)
        /\ PyInt(cssm[k].avail).ok
        /\ IntEqCell(PyInt(cssm[k].avail).n, pre_ea[i].qty)}

FirstFailingStage(i) ==
    IF Expired(i) THEN {"EXPIRED_ALREADY"}
    ELSE IF PrimaryRows(i) = {} THEN {"NO_PRIMARY_MATCH"}
    ELSE IF Candidates(i) = {} THEN {"NO_SECONDARY_MATCH"}
    ELSE IF FreeMatches(i) = {} THEN {"NO_QUANTITY_MATCH"}
    ELSE QuantityPassed

FillOf(colour) ==
    CASE colour = "PURPLE" -> PINK_FILL
      [] colour = "RED" -> RED_FILL
      [] colour = "BLUE" -> BLUE_FILL
      [] colour = "YELLOW" -> YELLOW_FILL
      [] colour = "GREEN" -> GREEN_FILL

ColourOf(msg) ==
    CASE msg = "EXPIRED_ALREADY" -> "PURPLE"
      [] msg \in {"NO_PRIMARY_MATCH", "NO_SECONDARY_MATCH"} -> "RED"
      [] msg = "NO_QUANTITY_MATCH" -> "BLUE"
      [] msg \in {"DATE_INVALID", "DATE_OUT_OF_RANGE"} -> "YELLOW"
      [] msg = "ACCEPTED" -> "GREEN"

\* C4: the outcome of every processed row is that of the first stage, in the
\* order expired, primary key, secondary key, quantity, date, that does not
\* pass; a row that stops before the quantity stage claims nothing; and in
\* every later state the row still carries that outcome's colour.
C4_FirstFailingStageDecides ==
    \A i \in Processed :
        /\ CurLog(i).msg \in FirstFailingStage(i)
        /\ CurLog(i).msg \notin QuantityPassed => CurHist(i).matched = 0
        /\ CurLog(i).msg \in QuantityPassed => CurHist(i).matched \in FreeMatches(i)
        /\ CurLog(i).colour = ColourOf(CurLog(i).msg)
        /\ \A col \in 1..NCols : ws[i + 1][col] = FillOf(CurLog(i).colour)

\* a finished run with a row stopped at each of the first four stages while
\* a later stage would have had something to say: an expired row and a row
\* with no secondary-key match although a CSSM row of their primary key has
\* their quantity free, and a row of an absent primary key
C4_Witness ==
    /\ pc = "done"
    /\ \E i \in Processed :
        /\ CurLog(i).msg \in {"EXPIRED_ALREADY", "NO_SECONDARY_MATCH"}
        /\ \E k \in PrimaryRows(i) : Eligible(cssm, k, UsedBefore(i), pre_ea[i].qty)
    /\ \E i \in Processed : CurLog(i).msg = "NO_PRIMARY_MATCH" /\ Len(cssm) > 0

\* the returned counts red, blue, yellow, green, pink of the last finished run
LastCounts == SubSeq(rets[Len(rets)], 2, 6)

CountOf(colour) == Cardinality({i \in Processed : CurLog(i).colour = colour})

\* C5: every processed row has exactly one log record and one of the five
\* fills, the rows not processed yet have none, and when the run is done all
\* rows are processed and the returned counts are the numbers of rows of
\* each colour, so they sum to the number of PRE-EA rows.
C5_ExactlyOneOutcome ==
    /\ pc \in {"loop", "done"} =>
        /\ Len(log) = idx
        /\ \A i \in Processed :
            /\ CurLog(i).row = i + 1
            /\ CurLog(i).colour \in {"PURPLE", "RED", "BLUE", "YELLOW", "GREEN"}
            /\ \A col \in 1..NCols : ws[i + 1][col] = FillOf(CurLog(i).colour)
        /\ \A r \in (idx + 2)..(Len(pre_ea) + 1) : \A col \in 1..NCols : ws[r][col] = NO_FILL
        /\ red_rows + blue_rows + yellow_rows + green_rows + pink_rows = idx
    /\ pc = "done" =>
        /\ idx = Len(pre_ea)
        /\ LastCounts = <<CountOf("RED"), CountOf("BLUE"), CountOf("YELLOW"),
                          CountOf("GREEN"), CountOf("PURPLE")>>
        /\ LastCounts[1] + LastCounts[2] + LastCounts[3] + LastCounts[4] + LastCounts[5]
             = Len(pre_ea_file)

\* a finished run over two rows, one of them RED at the SKU stage
C5_Witness ==
    /\ pc = "done"
    /\ Len(pre_ea) >= 2
    /\ \E i \in Processed : CurLog(i).msg = "NO_SECONDARY_MATCH"

\* ---- repeated runs: run k's records are log[(k-1)*n + 1 .. k*n]
RunLen == Len(pre_ea_file)
RowsDone(k) == IF k = run /\ pc = "loop" THEN idx ELSE RunLen
LogOf(k, i) == log[(k - 1) * RunLen + i]
HistOf(k, i) == hist[(k - 1) * RunLen + i]

\* runs 1 and k read the same today for their rows 1..i
SameTodays(k, i) == \A j \in 1..i : HistOf(k, j).today = HistOf(1, j).today

\* C6: a later run on the same instance starts with an empty claimed set, and
\* as long as it reads the same today as the first run it gives every row the
\* same outcome and claims the same CSSM row for it; when it is done under the
\* same todays it returns the same counts.
C6_Deterministic ==
    /\ (pc = "loop" /\ idx = 0) => used_cssm_indices = {}
    /\ \A k \in 2..run : \A i \in 1..RowsDone(k) :
        SameTodays(k, i) =>
            /\ LogOf(k, i) = LogOf(1, i)
            /\ HistOf(k, i).matched = HistOf(1, i).matched
    /\ \A k \in 2..Len(rets) :
        SameTodays(k, RunLen) => SubSeq(rets[k], 2, 6) = SubSeq(rets[1], 2, 6)

\* a second run finished under the todays of the first, which had claimed a
\* CSSM row and left a competing row BLUE
C6_Witness ==
    /\ pc = "done"
    /\ run = 2
    /\ RunLen >= 2
    /\ SameTodays(2, RunLen)
    /\ \E i \in 1..RunLen : HistOf(1, i).matched # 0
    /\ \E i \in 1..RunLen : LogOf(2, i).msg = "NO_QUANTITY_MATCH"

\* C7: a row whose secondary key has no direct match among the CSSM rows of
\* its primary key, but is a key of the alias map with a mapped value that is
\* the SKU of such a row, is never NO_SECONDARY_MATCH.
C7_AliasFallback ==
    \A i \in Processed :
        (DirectRows(i) = {} /\ AliasRows(i) # {}) => CurLog(i).msg # "NO_SECONDARY_MATCH"

\* such a row, not expired, processed
C7_Witness ==
    \E i \in Processed :
        /\ DirectRows(i) = {} /\ AliasRows(i) # {}
        /\ CurLog(i).msg \in QuantityReached

SkuStageReached(i) == CurLog(i).msg \notin {"EXPIRED_ALREADY", "NO_PRIMARY_MATCH"}

IsIncreasing(q) == \A a, b \in 1..Len(q) : a < b => q[a] < q[b]

\* C8: whenever line 73 is reached, get_valid_sku_matches returns the rows of
\* the primary-key subset whose SKU is the PRE-EA PID when there are any,
\* claimed or not, else the rows whose SKU the alias map gives for the PID,
\* else no row; in the frame's order.
C8_SkuMatches ==
    \A i \in Processed :
        SkuStageReached(i) =>
            /\ SeqRange(CurHist(i).sku_match) = Candidates(i)
            /\ IsIncreasing(CurHist(i).sku_match)
            /\ DirectRows(i) # {} => SeqRange(CurHist(i).sku_match) = DirectRows(i)
            /\ (DirectRows(i) = {} /\ AliasRows(i) = {}) => CurHist(i).sku_match = <<>>

\* a row whose direct matches are all claimed while an alias-mapped row has
\* its quantity free: the alias rows are not used
C8_Witness ==
    \E i \in Processed :
        /\ SkuStageReached(i)
        /\ DirectRows(i) # {} /\ DirectRows(i) \subseteq UsedBefore(i)
        /\ \E k \in AliasRows(i) : Eligible(cssm, k, UsedBefore(i), pre_ea[i].qty)
        /\ CurLog(i).msg = "NO_QUANTITY_MATCH"

\* the 'Available To Use' cell holds an integer value
IsIntegral(c) ==
    \/ c.k = "int"
    \/ c.k = "float" /\ c.t % 10 = 0
    \/ c.k = "str" /\ PyInt(c).ok

\* unclaimed, integral, and equal to the requested quantity
ExactlyEligible(i, k) ==
    /\ k \notin UsedBefore(i)
    /\ IsIntegral(cssm[k].avail)
    /\ IntEqCell(PyInt(cssm[k].avail).n, pre_ea[i].qty)

\* C9: a CSSM row is claimed for a row only if it is unclaimed and its
\* 'Available To Use' is an integer equal to the requested quantity (a
\* non-integral available quantity never matches), and a row that reaches the
\* quantity stage is NO_QUANTITY_MATCH exactly when no candidate is so.
C9_ExactQuantity ==
    \A i \in Processed :
        /\ CurHist(i).matched # 0 => ExactlyEligible(i, CurHist(i).matched)
        /\ CurLog(i).msg \in QuantityReached =>
            (CurLog(i).msg = "NO_QUANTITY_MATCH"
                <=> ~\E k \in SeqRange(CurHist(i).sku_match) : ExactlyEligible(i, k))

\* C10: the CSSM row claimed for a row is the first of its candidates, in
\* CSSM input order, that is unclaimed and whose quantity int() equals the
\* requested one: no such candidate precedes it.
C10_FirstEligibleWins ==
    \A i \in Processed :
        CurHist(i).matched # 0 =>
            /\ CurHist(i).matched \in FreeMatches(i)
            /\ \A k \in FreeMatches(i) : CurHist(i).matched <= k

\* a row with two free matching candidates, and a row whose first candidate
\* was not eligible
C10_Witness ==
    /\ \E i \in Processed : Cardinality(FreeMatches(i)) >= 2
    /\ \E i \in Processed :
        /\ CurHist(i).matched # 0
        /\ \E k \in Candidates(i) : k < CurHist(i).matched

\* C11: for a row that claimed a CSSM row the outcome is DATE_INVALID when
\* its own expiration or the claimed row's 'Subscription End Date' is no
\* date; otherwise ACCEPTED (GREEN) when the requested expiration is on or
\* before the CSSM one, equal dates included, else DATE_OUT_OF_RANGE (YELLOW).
C11_DateAcceptance ==
    \A i \in Processed :
        CurHist(i).matched # 0 =>
            LET requested == ExpOf(i)
                covered == standardize_date(cssm[CurHist(i).matched].endd, <<>>)
            IN  /\ CurLog(i).msg =
                      IF requested = NoneVal \/ covered = NoneVal THEN "DATE_INVALID"
                      ELSE IF requested = covered \/ DateLT(requested, covered) THEN "ACCEPTED"
                      ELSE "DATE_OUT_OF_RANGE"
                /\ CurLog(i).colour = IF CurLog(i).msg = "ACCEPTED" THEN "GREEN" ELSE "YELLOW"

\* a row accepted on equal dates, and a row refused one day past (Scenario C)
C11_Witness ==
    /\ \E i \in Processed :
        /\ CurHist(i).matched # 0
        /\ ExpOf(i) # NoneVal
        /\ ExpOf(i) = standardize_date(cssm[CurHist(i).matched].endd, <<>>)
        /\ CurLog(i).msg = "ACCEPTED"
    /\ \E i \in Processed : CurLog(i).msg = "DATE_OUT_OF_RANGE"

\* the record and the locals of the row an iteration has just processed
LastLog == log[Len(log)]
LastHist == hist[Len(hist)]

\* C12: within a run the claimed set only grows.  An iteration whose row
\* passes the quantity stage adds exactly one CSSM row, one that was not
\* claimed before; an iteration ending EXPIRED_ALREADY, NO_PRIMARY_MATCH,
\* NO_SECONDARY_MATCH or NO_QUANTITY_MATCH leaves the set as it was; the
\* final save leaves it as it was.
C12_ClaimsOnlyGrow ==
    [][ pc = "loop" =>
          /\ used_cssm_indices \subseteq used_cssm_indices'
          /\ idx' = idx =>  used_cssm_indices' = used_cssm_indices
          /\ (idx' = idx + 1 /\ LastLog'.msg \in QuantityPassed) =>
                /\ LastHist'.matched \notin used_cssm_indices
                /\ LastHist'.matched \in 1..Len(cssm)
                /\ used_cssm_indices' = used_cssm_indices \cup {LastHist'.matched}
          /\ (idx' = idx + 1 /\ LastLog'.msg \notin QuantityPassed) =>
                /\ LastLog'.msg \in {"EXPIRED_ALREADY", "NO_PRIMARY_MATCH",
                                     "NO_SECONDARY_MATCH", "NO_QUANTITY_MATCH"}
                /\ used_cssm_indices' = used_cssm_indices
      ]_vars

\* a claimed CSSM row was among the SKU matches of a later row, which is
\* BLUE and left the claimed set as it was
C12_Witness ==
    \E i, j \in Processed :
        /\ i < j
        /\ CurHist(i).matched # 0
        /\ CurHist(i).matched \in SeqRange(CurHist(j).sku_match)
        /\ CurLog(j).msg = "NO_QUANTITY_MATCH"
        /\ used_cssm_indices = {CurHist(i).matched}

\* the cell holds no quantity: empty, None, or text that is not a number
NoQuantity(c) == c.k \notin {"int", "float"} /\ ~PyInt(c).ok

C14_LoadFatal ==
    ~FilesComplete =>
        /\ log = <<>>
        /\ pc # "done"
        /\ pc = "raised" => out_file = "absent"

\* ---- the entries of the mapping document, when it is an object
DocItems == IF sku_map_file \in {NoFile, NotJson} \/ sku_map_file.t # "obj" THEN <<>> ELSE sku_map_file.items
DocLoaded == map_out # Unset /\ map_out.branch = "loaded"
ValidEntry(j) == DocItems[j].value.t \in {"list", "str"}

\* the list of trimmed strings an entry's value stands for
TrimmedValue(value) ==
    IF value.t = "list"
    THEN PyL([j \in 1..Len(value.v) |-> PyS(Strip(StrOf(value.v[j])))])
    ELSE PyL(<<PyS(Strip(value.s))>>)

\* C15 as stated: every entry whose value is a list or a string is returned
\* (under its trimmed key, with its trimmed values), every other entry is
\* warned about and dropped, and the load does not fail.
C15_EveryValidEntryReturned ==
    DocLoaded =>
        /\ \A j \in 1..Len(DocItems) :
            ValidEntry(j) =>
                /\ Strip(DocItems[j].key) \in DOMAIN map_out.map
                /\ map_out.map[Strip(DocItems[j].key)] = TrimmedValue(DocItems[j].value)
        /\ DOMAIN map_out.map = {Strip(DocItems[j].key) : j \in {i \in 1..Len(DocItems) : ValidEntry(i)}}
        /\ SeqRange(map_out.warned) = {DocItems[j].key : j \in {i \in 1..Len(DocItems) : ~ValidEntry(i)}}

\* entry j is the last valid entry of its trimmed key
LastOfKey(j) ==
    \A i \in 1..Len(DocItems) :
        (i > j /\ ValidEntry(i)) => Strip(DocItems[i].key) # Strip(DocItems[j].key)

\* C15: the loader warns about exactly the entries whose value is neither a
\* list nor a string and returns all the others under their trimmed keys:
\* the keys returned are the trimmed keys of the valid entries, each with the
\* trimmed values of the last valid entry of that key, whatever malformed
\* entries stand before, between or after them.
C15_MalformedEntriesDropped ==
    DocLoaded =>
        /\ ~map_out.raised
        /\ \A j \in 1..Len(DocItems) :
            (ValidEntry(j) /\ LastOfKey(j)) =>
                /\ Strip(DocItems[j].key) \in DOMAIN map_out.map
                /\ map_out.map[Strip(DocItems[j].key)] = TrimmedValue(DocItems[j].value)
        /\ DOMAIN map_out.map = {Strip(DocItems[j].key) : j \in {i \in 1..Len(DocItems) : ValidEntry(i)}}
        /\ SeqRange(map_out.warned) = {DocItems[j].key : j \in {i \in 1..Len(DocItems) : ~ValidEntry(i)}}
        /\ Len(map_out.warned) = Cardinality({i \in 1..Len(DocItems) : ~ValidEntry(i)})

\* a document with a malformed entry before a valid one, loaded
C15_Witness ==
    /\ DocLoaded
    /\ \E i, j \in 1..Len(DocItems) :
        /\ i < j
        /\ ~ValidEntry(i)
        /\ ValidEntry(j)
        /\ Strip(DocItems[i].key) = Strip(DocItems[j].key)
        /\ map_out.map[Strip(DocItems[j].key)] = TrimmedValue(DocItems[j].value)
        /\ map_out.warned = <<DocItems[i].key>>

\* C16: load_pid_to_skus_map never raises; with no path and no default
\* file, with a missing file, with a file that is no JSON and with a
\* document whose top level is no object it returns the empty map.
C16_LoaderNeverRaises ==
    map_out # Unset =>
        /\ ~map_out.raised
        /\ (sku_map_file \in {NoFile, NotJson} \/ sku_map_file.t # "obj") =>
              (map_out.map = <<>> /\ map_out.warned = <<>>)
        /\ (mapping_path = "None" /\ sku_map_file = NoFile) <=> map_out.branch = "no mapping"

\* the loader has returned from a document whose top level is a list
C16_Witness ==
    /\ map_out # Unset
    /\ sku_map_file \notin {NoFile, NotJson}
    /\ sku_map_file.t = "list"
    /\ map_out.map = <<>>
    /\ ~map_out.raised

\* a dict with trimmed str keys whose values are lists of trimmed str
TrimmedMap(m) ==
    /\ m.t = "dict"
    /\ \A key \in DOMAIN m.d :
        /\ Strip(key) = key
        /\ m.d[key].t = "list"
        /\ \A j \in 1..Len(m.d[key].v) :
            m.d[key].v[j].t = "str" /\ Strip(m.d[key].v[j].s) = m.d[key].v[j].s

\* the alias map a caller hands to compare_and_save
Handed == IF map_out.branch \in {"streamlit", "test_main"} THEN map_out.map ELSE PyD(map_out.map)

\* C17: whichever of load_pid_to_skus_map, the Streamlit mapping editor and
\* test_excel_comparator.main built it, the alias map handed to
\* compare_and_save is a dict with whitespace-trimmed string keys and list
\* values made only of whitespace-trimmed strings.
C17_AliasMapTrimmed ==
    (map_out # Unset /\ ~map_out.raised) => TrimmedMap(Handed)

\* ---- the per-row audit records
\* the summary counter of a colour
CounterOf(colour) ==
    CASE colour = "PURPLE" -> pink_rows
      [] colour = "RED" -> red_rows
      [] colour = "BLUE" -> blue_rows
      [] colour = "YELLOW" -> yellow_rows
      [] colour = "GREEN" -> green_rows

Colours == {"PURPLE", "RED", "BLUE", "YELLOW", "GREEN"}

\* the step handles one PRE-EA row: it appends one record 'Row N: ...
\* Marking as <colour>' with N = idx + 2, above the N of the record before
\* it, counts the row under that colour only and fills its cells with it
OneRecordStep ==
    /\ idx' = idx + 1
    /\ Len(log') = Len(log) + 1
    /\ SubSeq(log', 1, Len(log)) = log
    /\ log'[Len(log')].row = idx + 2
    /\ idx > 0 => log[Len(log)].row < log'[Len(log')].row
    /\ log'[Len(log')].colour \in Colours
    /\ \A colour \in Colours :
        CounterOf(colour)' =
            CounterOf(colour) + (IF colour = log'[Len(log')].colour THEN 1 ELSE 0)
    /\ \A col \in 1..NCols : ws'[idx + 2][col] = FillOf(log'[Len(log')].colour)
    /\ \A r \in (1..Len(ws)) \ {idx + 2} : ws'[r] = ws[r]

\* C18: while compare_and_save runs, every step either handles the next
\* PRE-EA row, emitting exactly one audit record for it, in input order
\* with N = row index + 2, whose colour is the one counted and filled, or is
\* the final save, which emits no row record and changes no count or fill.
C18_OneAuditRecordPerRow ==
    [][pc = "loop" =>
        \/ OneRecordStep
        \/ /\ pc' = "done"
           /\ idx = Len(pre_ea)
           /\ Len(log) = Len(pre_ea)
           /\ UNCHANGED <<idx, log, ws, counters>>]_vars

\* a finished run of two rows whose records name different colours, the
\* second one BLUE
C18_Witness ==
    /\ pc = "done"
    /\ Len(log) = 2
    /\ log[1].row = 2 /\ log[2].row = 3
    /\ log[1].colour = "GREEN"
    /\ log[2].colour = "BLUE"
    /\ blue_rows = 1 /\ green_rows = 1

\* ---- the callers of compare_and_save
LastRet == rets[Len(rets)]

\* C19: when compare_and_save completed and its caller has handled the
\* returned value, the Streamlit page reports success, offers the output
\* workbook for download and shows the RED, BLUE, YELLOW and GREEN counts
\* that were returned, and the test script reports the saved output path.
C19_CallerObtainsResults ==
    report # NoReport =>
        /\ report.success
        /\ ~report.error
        /\ report.out_path = PyPath(LastRet[1])
        /\ report.caller = "streamlit" =>
                report.summary = <<LastRet[2], LastRet[3], LastRet[4], LastRet[5]>>

\* ---- ensure_clean_dir
\* the entries of the call that the code leaves in place: those that are
\* neither file, symlink nor directory, and those whose removal raised
LeftInPlace ==
    {name \in DOMAIN scan.at_call :
        \/ scan.at_call[name].kind = "fifo"
        \/ ~scan.at_call[name].removable}

\* C20 as stated: whenever ensure_clean_dir returns normally, the directory
\* exists and contains no entries.
C20_DirectoryEmptied ==
    (scan # NotCalled /\ scan.pc = "returned") =>
        /\ dir_state = "dir"
        /\ DOMAIN dir_entries = {}

\* C20, amended: whenever ensure_clean_dir returns normally, the directory
\* exists and every file, symlink and subdirectory present at the call
\* whose removal did not raise has been removed; an entry whose removal
\* raised is left as it was, with one warning logged, and an entry of
\* another kind is left as it was, without warning.
C20_RemovableEntriesRemoved ==
    (scan # NotCalled /\ scan.pc = "returned") =>
        /\ dir_state = "dir"
        /\ DOMAIN dir_entries = LeftInPlace
        /\ \A name \in LeftInPlace : dir_entries[name] = scan.at_call[name]
        /\ scan.warned = {name \in LeftInPlace : scan.at_call[name].kind # "fifo"}

\* a normal return on a directory that held a symlink to a directory, now
\* removed, and a file that could not be removed
C20_Witness ==
    /\ scan # NotCalled
    /\ scan.pc = "returned"
    /\ \E gone, kept \in DOMAIN scan.at_call :
        /\ scan.at_call[gone] = [kind |-> "symlink_to_dir", removable |-> TRUE]
        /\ scan.at_call[kept] = [kind |-> "file", removable |-> FALSE]
        /\ DOMAIN dir_entries = {kept}
        /\ scan.warned = {kept}

\* ---- compare_excels.main
\* C21: in a run of compare_excels.main no CSSM row satisfies the quantity
\* stage for two different PRE-EA rows.
C21_MainClaimsOnce ==
    \A i, j \in 1..Len(cli.log) :
        (i # j /\ cli.log[i].matched # 0) => cli.log[i].matched # cli.log[j].matched

\* ---- compute_licensing_files
\* C22: at the end of a run of compute_licensing_files every PRE-EA row
\* whose Expiration Date is before today has Flag PURPLE, whatever its ALC
\* Order Number and PID match.
C22_PurpleKept ==
    flagging.pc = "done" =>
        \A i \in 1..Len(pre_ea_file) :
            ExpiredMask(pre_ea_file[i], clock) => flagging.Flag[i] = "PURPLE"

\* ---- claims of rows that fail the date rule
DateFailed == {"DATE_INVALID", "DATE_OUT_OF_RANGE"}

SameKeysAndQuantity(i, j) ==
    /\ AlcOf(i) = AlcOf(j)
    /\ PidOf(i) = PidOf(j)
    /\ pre_ea[i].qty = pre_ea[j].qty

\* C23: the CSSM row claimed by a PRE-EA row that ends DATE_INVALID or
\* DATE_OUT_OF_RANGE stays in the claimed set for the rest of the run; no
\* later row claims it, and a later row with the same keys and quantity
\* that reaches the quantity stage is NO_QUANTITY_MATCH unless another of
\* its candidates is unclaimed and has its quantity.
C23_DateFailureKeepsClaim ==
    pc \in {"loop", "done"} =>
        \A i \in Processed :
            CurLog(i).msg \in DateFailed =>
                /\ CurHist(i).matched # 0
                /\ CurHist(i).matched \in used_cssm_indices
                /\ \A j \in Processed :
                    j > i =>
                        /\ CurHist(j).matched # CurHist(i).matched
                        /\ (/\ SameKeysAndQuantity(i, j)
                            /\ CurLog(j).msg \in QuantityReached
                            /\ QuantityMatches(j) \ UsedBefore(j) = {})
                                => CurLog(j).msg = "NO_QUANTITY_MATCH"

\* a row ended DATE_OUT_OF_RANGE, and a later row with the same keys and
\* quantity found its only quantity match claimed and is NO_QUANTITY_MATCH
C23_Witness ==
    \E i, j \in Processed :
        /\ i < j
        /\ CurLog(i).msg = "DATE_OUT_OF_RANGE"
        /\ SameKeysAndQuantity(i, j)
        /\ QuantityMatches(j) = {CurHist(i).matched}
        /\ CurLog(j).msg = "NO_QUANTITY_MATCH"

\* ---- the output directory
\* the log file is opened after the cleaning: it is of the current
\* cleaning whenever a comparator is ready
LogIsCurrent ==
    output_dir.pc = "ready" =>
        /\ "log" \in DOMAIN output_dir.entries
        /\ output_dir.entries["log"].born = output_dir.cleanups

\* C24 as stated: the log file is opened after the cleaning has completed,
\* and after any constructions and runs the output directory holds no entry
\* written before the most recent cleaning.
C24_NothingOlderThanCleanup ==
    /\ LogIsCurrent
    /\ output_dir.pc \in {"cleaned", "ready"} =>
            \A name \in DOMAIN output_dir.entries :
                output_dir.entries[name].born = output_dir.cleanups

\* C24, amended: the log file is opened after the cleaning has completed, so
\* the cleaning never removes the log of the run it starts, and after any
\* constructions and runs every entry written before the most recent
\* cleaning is one that ensure_clean_dir could not remove: its removal
\* raised, or it is neither file, symlink nor directory.
C24_OnlyUnremovableOlderThanCleanup ==
    /\ LogIsCurrent
    /\ output_dir.pc \in {"cleaned", "ready"} =>
            \A name \in DOMAIN output_dir.entries :
                output_dir.entries[name].born < output_dir.cleanups =>
                    \/ ~output_dir.entries[name].removable
                    \/ output_dir.entries[name].kind = "fifo"

\* a second construction: the workbook of the first comparator's run could
\* be removed and is gone, the log file is new, an older entry that could
\* not be removed is still there
C24_Witness ==
    /\ output_dir.pc = "ready"
    /\ output_dir.cleanups = 2
    /\ DOMAIN output_dir.entries = {"log", "other"}
    /\ output_dir.entries["other"] = [kind |-> "file", removable |-> FALSE, born |-> 0]

\* ---- the row-by-row results table
\* C25: the table parse_log_table builds from the log of a finished run has
\* one entry for every PRE-EA row compare_and_save processed, in order, with
\* the row's number and the colour compare_and_save assigned to it.
C25_TableHasEveryRow ==
    df_logs.shown =>
        /\ Len(df_logs.rows) = Len(pre_ea)
        /\ \A i \in 1..Len(df_logs.rows) :
            /\ df_logs.rows[i].Row = CurLog(i).row
            /\ df_logs.rows[i].Result = CurLog(i).colour

\* ---- the two entry points on the same files
\* no expiration is before today, every row has at most one candidate CSSM
\* row, and no two rows share a candidate
Unambiguous ==
    /\ \A i \in Processed : ~Expired(i)
    /\ \A i \in Processed : Cardinality(Candidates(i)) <= 1
    /\ \A i, j \in Processed : i # j => Candidates(i) \cap Candidates(j) = {}

BothDone == pc = "done" /\ cli.pc = "done"

\* C26: on such an input compare_excels.main and compare_and_save give
\* every PRE-EA row the same colour and end with the same RED, BLUE, YELLOW
\* and GREEN counts.
C26_SameColours ==
    (BothDone /\ Unambiguous) =>
        /\ \A i \in Processed : cli.log[i].colour = CurLog(i).colour
        /\ cli.counts = <<red_rows, blue_rows, yellow_rows, green_rows>>

\* ---- accepted rows and today
\* the 'Subscription End Date' of the CSSM row claimed for row i, as line
\* 121 reads it
CoveredUntil(i) == standardize_date(cssm[CurHist(i).matched].endd, <<>>)

\* C27: a row classified ACCEPTED (GREEN) has a requested expiration on or
\* after the today read for it, and so has the CSSM row claimed for it.
C27_AcceptedNotExpired ==
    \A i \in Processed :
        CurLog(i).colour = "GREEN" =>
            /\ CurHist(i).matched # 0
            /\ ExpOf(i) # NoneVal
            /\ DateLE(CurHist(i).today, ExpOf(i))
            /\ CoveredUntil(i) # NoneVal
            /\ DateLE(CurHist(i).today, CoveredUntil(i))

\* a row accepted although another row of the run was already expired
C27_Witness ==
    /\ \E i \in Processed : CurLog(i).colour = "GREEN" /\ CurHist(i).matched # 0
    /\ \E j \in Processed : CurLog(j).msg = "EXPIRED_ALREADY"

\* C28: within one run every row's expired check uses the same today, so
\* two rows with the same requested expiration are both EXPIRED_ALREADY or
\* neither is.
C28_OneTodayPerRun ==
    \A i, j \in Processed :
        /\ CurHist(i).today = CurHist(j).today
        /\ ExpOf(i) = ExpOf(j) =>
              (CurLog(i).msg = "EXPIRED_ALREADY" <=> CurLog(j).msg = "EXPIRED_ALREADY")

\* ---- the same date text on both sides
\* row i claimed a CSSM row whose 'Subscription End Date' holds the text of
\* the row's own 'Expiration Date', a date written MM/DD/YYYY
SameDateText(i) ==
    /\ CurHist(i).matched # 0
    /\ pre_ea[i].exp.k = "datestr"
    /\ pre_ea[i].exp.form = "n/n/n"
    /\ ExpOf(i) # NoneVal
    /\ cssm[CurHist(i).matched].endd = pre_ea[i].exp

\* C29: when a row and the CSSM row claimed for it hold the same
\* MM/DD/YYYY text, both sides parse to the same calendar date and the row
\* is ACCEPTED.
C29_SameTextSameDate ==
    \A i \in Processed :
        SameDateText(i) =>
            /\ CoveredUntil(i) = ExpOf(i)
            /\ CurLog(i).msg = "ACCEPTED"

\* ---- the worksheet
RowFills == {RED_FILL, BLUE_FILL, YELLOW_FILL, GREEN_FILL, PINK_FILL}

\* C30: the step that classifies PRE-EA row idx (0-based) puts one fill on
\* every cell of worksheet row idx + 2, which had none, and leaves the
\* header and every other row as they were; no other step of the loop
\* touches the worksheet.
C30_OnlyOwnRowFilled ==
    [][pc = "loop" =>
        IF idx' = idx + 1
        THEN /\ DOMAIN ws' = DOMAIN ws
             /\ \A col \in 1..NCols : ws[idx + 2][col] = NO_FILL
             /\ \E fill \in RowFills : \A col \in 1..NCols : ws'[idx + 2][col] = fill
             /\ \A r \in DOMAIN ws : r # idx + 2 => ws'[r] = ws[r]
        ELSE ws' = ws]_vars

\* a finished run of two rows with different fills under an unfilled header
C30_Witness ==
    /\ pc = "done"
    /\ idx = 2
    /\ \A col \in 1..NCols : ws[1][col] = NO_FILL
    /\ \A r \in {2, 3} : \A col \in 1..NCols : ws[r][col] = ws[r][1] /\ ws[r][1] \in RowFills
    /\ ws[2][1] # ws[3][1]

====
